---------------------------- MODULE Spec2Model ----------------------------
(***************************************************************************)
(* Model of the nexusSAAS control plane and runner.                        *)
(*                                                                         *)
(* Control plane (services/control-plane/app): the tenant HTTP handlers of *)
(* routers/tenants.py, the EventManager of events.py and the WebSocket     *)
(* endpoint of routers/events_ws.py.                                       *)
(* Runner (services/runner/app): the internal endpoints of main.py with    *)
(* their bearer-token check (auth.py).                                     *)
(*                                                                         *)
(* An async handler runs without interruption between two awaits (the      *)
(* SQLAlchemy session is synchronous), so each action below is one such    *)
(* segment: <Handler>Begin runs up to the Runner HTTP call, RunnerReply    *)
(* is the Runner serving it, <Handler>Resume runs from the return of the   *)
(* call to the first emit, and EmitNext is one EventManager.emit call.     *)
(***************************************************************************)
EXTENDS Integers, Sequences, FiniteSets, TLC

(***************************************************************************)
(* Bounds of the model.                                                    *)
(***************************************************************************)
\* Largest revision number a handler may propose.
MaxRevision == 3
\* Largest number of rows in runtime_events.
MaxEvents == 3
\* Largest number of HTTP requests in flight at once in the control plane.
MaxInflight == 2
\* Largest number of requests that reach the Runner call in one behaviour.
MaxRequests == 4
\* Largest number of such requests in one behaviour of SpecRev.
MaxRevRequests == 3
\* Largest number of envelopes published on the bus and not yet consumed.
MaxBusQueue == 2

(***************************************************************************)
(* Program constants.                                                      *)
(***************************************************************************)
\* tenants.py:240  for _attempt in range(3)
SetupAttempts == 3

Users == {1, 2}                       \* users.id of the signed-up users
TokenHexIds == {"ta", "tb"}           \* values secrets.token_hex(8) may return
NoTenant == "none"

OPENROUTER_API_KEY == "NEXUS_OPENROUTER_API_KEY"

\* settings.nexus_image values: a real tag, the shipped placeholder, empty.
GoodImage == "ghcr.io/test/nexus-runtime:test"
PlaceholderImage == "ghcr.io/your-org/nexus-runtime:sha-REPLACE_WITH_COMMIT"
Images == {GoodImage, PlaceholderImage, ""}

\* assistant_defaults.py (two of the four default prompts, one of the four
\* default skills; "system" is managed, "SOUL" is not, every skill is).
PromptNames == {"system", "SOUL"}
SkillIds == {"google_workspace"}
PROMPT_DEFAULTS == [system |-> "# Nexus System Prompt (full)", SOUL |-> "# Soul (full)"]
SKILL_DEFAULTS == [google_workspace |-> "# Google Workspace Skill (Hosted)"]
MANAGED_PROMPT_IDS == {"system"}
MANAGED_SKILL_IDS == DOMAIN SKILL_DEFAULTS
PROMPT_SCAFFOLDS == [system |-> {"", "# Nexus System Prompt"}, SOUL |-> {"", "# Soul"}]
SKILL_SCAFFOLDS == [google_workspace |-> {"", "# Skill", "# Skill\nDescribe behavior."}]
ASSISTANT_DEFAULTS_VERSION == "2026-02-18-skill-parity-v1"

\* Request bodies the model sends.
PutContents == {"# Soul", "custom"}
EmptyDict == [k \in {} |-> ""]
InitialConfigs ==
    { EmptyDict,
      [NEXUS_OPENROUTER_API_KEY |-> "sk-x"],
      [NEXUS_OPENROUTER_API_KEY |-> " "] }
PatchValues ==
    { EmptyDict, [EXTRA_FLAG |-> "1"], [NEXUS_OPENROUTER_API_KEY |-> ""] }

\* State set of Tenant.status and TenantRuntime.actual_state (spec section 3).
StateSet == {"provisioning", "pending_pairing", "running", "paused", "error", "deleted"}

\* Outcomes of one Runner HTTP call: "ok"; "rejected" (require_internal_auth
\* raised, e.g. the 60 s token had expired: nothing done); "failed" (a docker
\* compose step raised RuntimeErrorManager, after the files were written);
\* "unreachable" (httpx error, the Runner never saw the call); "reply_lost"
\* (the Runner served the call, the client timed out waiting for the reply).
RunnerOutcomes == {"ok", "rejected", "failed", "unreachable", "reply_lost"}

VARIABLES
    \* ---- control-plane database (models.py)
    tenants,            \* set of Tenant rows [id, owner_user_id, status]
    tenant_runtime,     \* tenant id -> [desired_state, actual_state, last_error]
    tenant_secrets,     \* tenant id -> decrypted secret payload
    config_revisions,   \* set of ConfigRevision rows
    prompt_revisions,   \* set of PromptRevision rows
    skill_revisions,    \* set of SkillRevision rows
    runtime_events,     \* sequence of RuntimeEvent rows, id = position
    \* ---- control-plane process
    nexus_image,        \* app.state.settings.nexus_image
    requests,           \* slot -> handler suspended at an await, or NoRequest
    last_response,      \* the response of the request that completed last
    next_rid,           \* number of the next request that suspends (ghost)
    emit_count,         \* number of EventManager.emit calls made so far (ghost)
    cp_redis,           \* EventManager._redis: "none" or "client"
    consumer,           \* _consume_supervisor: "backoff" or "subscribed"
    connections,        \* EventManager._connections: tenant id -> set of sockets
    ws_frames,          \* socket -> frames the client has been sent, in order
    ws_broken,          \* sockets whose peer is gone: a send on them raises
    ws_conn,            \* socket -> the connection attempt made on it and its end
    \* ---- pub/sub bus
    bus_up,             \* the redis server is reachable
    bus_queue,          \* envelopes delivered to the consumer's subscription
    \* ---- runner host
    runner_files,       \* tenant id -> files under <root>/<tenant_id>/config
    containers,         \* tenant id -> the tenant's container is running
    runner_response,    \* the Runner's response to the last direct call
    \* ---- runner process: TenantMonitor (monitor.py)
    monitor_tasks,      \* TenantMonitor._tasks: tenant id -> task
    tasks,              \* task -> the _run coroutine's position and locals
    stop_calls,         \* caller -> monitor.stop or shutdown suspended at await task
    clock,              \* monotonic(), in seconds
    publish_calls,      \* what monitor code handed to publisher.publish, in order
    \* ---- runner process: EventPublisher (publisher.py)
    publisher_redis,    \* EventPublisher._redis is not None
    last_publish        \* the latest publish call: its inputs and what it did (ghost)

dbVars == <<tenants, tenant_runtime, tenant_secrets, config_revisions,
            prompt_revisions, skill_revisions, runtime_events>>
revisionVars == <<config_revisions, prompt_revisions, skill_revisions>>
vars == <<tenants, tenant_runtime, tenant_secrets, config_revisions,
          prompt_revisions, skill_revisions, runtime_events,
          nexus_image, requests, last_response, next_rid, emit_count,
          cp_redis, consumer, connections, ws_frames, ws_broken, ws_conn, bus_up,
          bus_queue, runner_files, containers, runner_response,
          monitor_tasks, tasks, stop_calls, clock, publish_calls,
          publisher_redis, last_publish>>
eventVars == <<runtime_events, tenant_runtime, tenants, connections, ws_frames>>
busVars == <<cp_redis, consumer, bus_up, bus_queue>>
wsVars == <<connections, ws_frames, ws_broken, ws_conn>>
monitorVars == <<monitor_tasks, tasks, stop_calls, clock, publish_calls>>
publisherVars == <<publisher_redis, last_publish>>
runnerVars == <<runner_files, containers, runner_response, monitorVars, publisherVars>>

(***************************************************************************)
(* Helpers on maps (Python dicts).                                         *)
(***************************************************************************)
\* dict.update: d with every key of u set to u's value.
DictUpdate(d, u) ==
    [k \in DOMAIN d \cup DOMAIN u |-> IF k \in DOMAIN u THEN u[k] ELSE d[k]]

\* d with key k set to v (d[k] = v on a dict that may lack k).
DictSet(d, k, v) == [x \in DOMAIN d \cup {k} |-> IF x = k THEN v ELSE d[x]]

\* str.strip() on the values the model uses.
Strip(s) == IF s = " " THEN "" ELSE s

(***************************************************************************)
(* tenants.py helpers.                                                     *)
(***************************************************************************)
\* _has_openrouter_api_key(env_json)
HasOpenrouterApiKey(env) ==
    /\ OPENROUTER_API_KEY \in DOMAIN env
    /\ Strip(env[OPENROUTER_API_KEY]) # ""

\* Variant: any NEXUS_IMAGE passes.
AnyNexusImage(image) == TRUE
\* The image test of _require_valid_nexus_image: non-empty, no placeholder
\* marker ("replace_with", "your-org", "<org>") in the lower-cased tag.
ValidNexusImage(image) == image # "" /\ image # PlaceholderImage

ActiveConfig(t) == {c \in config_revisions : c.tenant_id = t /\ c.is_active}
ActivePrompts(t) == {p \in prompt_revisions : p.tenant_id = t /\ p.is_active}
ActiveSkills(t) == {s \in skill_revisions : s.tenant_id = t /\ s.is_active}

\* db.scalar(select(ConfigRevision).where(tenant, is_active)): one row or None.
\* (scalar() returns the first row; the model picks any.)
HasActiveConfig(t) == ActiveConfig(t) # {}
ActiveConfigRow(t) == CHOOSE c \in ActiveConfig(t) : TRUE

\* _require_openrouter_api_key(db, tenant_id) passes.
RequireOpenrouterApiKeyOk(t) ==
    HasActiveConfig(t) /\ HasOpenrouterApiKey(ActiveConfigRow(t).env_json)

\* Variant: the row is looked up by id alone.
TenantForAnyone(t, u) == \E row \in tenants : row.id = t
\* _tenant_for_owner(db, tenant_id, owner_user_id) finds the row.
TenantForOwner(t, u) == \E row \in tenants : row.id = t /\ row.owner_user_id = u

\* Variant: the lookup finds nothing.
NoTenantsOfOwner(u) == {}
\* select(Tenant).where(Tenant.owner_user_id == user.id)
TenantsOfOwner(u) == {row \in tenants : row.owner_user_id = u}

\* {row.name: row.content for row in prompt_rows}: the dict keeps one row per
\* name (with at most one active row per name there is no choice).
PromptDict(rows) ==
    [n \in {p.name : p \in rows} |-> (CHOOSE p \in rows : p.name = n).content]
SkillDict(rows) ==
    [n \in {s.skill_id : s \in rows} |-> (CHOOSE s \in rows : s.skill_id = n).content]

\* select(func.max(revision)) ... or 0, plus 1.
MaxOf(S) == IF S = {} THEN 0 ELSE CHOOSE m \in S : \A x \in S : x <= m
NextPromptRevision(t, name) ==
    MaxOf({p.revision : p \in {q \in prompt_revisions : q.tenant_id = t /\ q.name = name}}) + 1
NextSkillRevision(t, sid) ==
    MaxOf({s.revision : s \in {q \in skill_revisions : q.tenant_id = t /\ q.skill_id = sid}}) + 1
NextConfigRevision(t) ==
    MaxOf({c.revision : c \in {q \in config_revisions : q.tenant_id = t}}) + 1

\* prompt_needs_default / skill_needs_default; content "none" is Python None.
NoContent == "<none>"
PromptNeedsDefault(name, content) ==
    \/ content = NoContent
    \/ Strip(content) = ""
    \/ name \in DOMAIN PROMPT_SCAFFOLDS /\ Strip(content) \in PROMPT_SCAFFOLDS[name]
SkillNeedsDefault(sid, content) ==
    \/ content = NoContent
    \/ Strip(content) = ""
    \/ sid \in DOMAIN SKILL_SCAFFOLDS /\ Strip(content) \in SKILL_SCAFFOLDS[sid]

(***************************************************************************)
(* Events: events.py.                                                      *)
(***************************************************************************)
Sockets == {"w1", "w2"}
\* A socket nobody has connected on.
NoConn == [state |-> "idle", user |-> 0, tenant_param |-> NoTenant, code |-> 0, since |-> 0]

\* An envelope {tenant_id, type, payload}.  payload keeps "state", "message"
\* ("message" or else "error" of the source payload) and "source"; "" is
\* absent.  No publisher of this code base sets "source".
\* cause and seq are ghosts: the request the event was produced for, and the
\* number of the EventManager.emit call that carried it (0: the Runner's).
Envelope(t, type, state, message, cause, seq) ==
    [tenant_id |-> t, type |-> type,
     payload |-> [state |-> state, message |-> message, source |-> ""],
     cause |-> cause, seq |-> seq]

\* _project_runtime_state: mapped_state ("" is None).
MappedState(type, payload) ==
    CASE type = "runtime.status" -> payload.state
      [] type = "runtime.error" -> "error"
      [] type = "whatsapp.connected" -> "running"
      [] type = "whatsapp.disconnected" -> "pending_pairing"
      [] OTHER -> ""

\* _project_runtime_state: mapped_error.
MappedError(type, payload) ==
    IF type = "runtime.error" \/ (type = "runtime.status" /\ payload.state = "error")
    THEN (IF payload.message # "" THEN payload.message ELSE "runtime_error")
    ELSE ""

\* _project_runtime_state on the TenantRuntime row.
ProjectRuntimeRow(row, type, payload) ==
    LET mapped_state == MappedState(type, payload)
        mapped_error == MappedError(type, payload) IN
    IF mapped_state = "" THEN row
    ELSE [row EXCEPT !.actual_state = mapped_state,
                     !.last_error = IF mapped_state = "error"
                                    THEN (IF mapped_error # "" THEN mapped_error ELSE row.last_error)
                                    ELSE ""]

\* _row_to_wire
RowToWire(row) ==
    [event_id |-> row.id, tenant_id |-> row.tenant_id, type |-> row.type,
     payload |-> row.payload, cause |-> row.cause, seq |-> row.seq]

TenantExists(t) == \E row \in tenants : row.id = t

\* The variant in which the first send that raises ends the loop over the
\* sockets: no socket is sent the frame and none is evicted.
PersistAndBroadcastAborting(ev) ==
    LET t == ev.tenant_id
        row == [id |-> Len(runtime_events) + 1, tenant_id |-> t, type |-> ev.type,
                payload |-> ev.payload, cause |-> ev.cause, seq |-> ev.seq]
        projects == t \in DOMAIN tenant_runtime /\ MappedState(ev.type, ev.payload) # ""
        sockets == IF t \in DOMAIN connections THEN connections[t] ELSE {}
        raises == sockets \cap ws_broken # {} IN
    /\ Len(runtime_events) < MaxEvents
    /\ runtime_events' = Append(runtime_events, row)
    /\ tenant_runtime' =
         IF projects
         THEN [tenant_runtime EXCEPT ![t] = ProjectRuntimeRow(@, ev.type, ev.payload)]
         ELSE tenant_runtime
    /\ tenants' =
         IF projects
         THEN {IF tr.id = t THEN [tr EXCEPT !.status = MappedState(ev.type, ev.payload)] ELSE tr
               : tr \in tenants}
         ELSE tenants
    /\ ws_frames' = [w \in DOMAIN ws_frames |->
                       IF w \in sockets /\ ~raises
                       THEN Append(ws_frames[w], RowToWire(row))
                       ELSE ws_frames[w]]
    /\ connections' = connections

\* _persist_and_broadcast for an envelope of an existing tenant: append the
\* row, project it, commit, send the wire envelope to every attached socket
\* and evict the sockets whose send raises.
PersistAndBroadcast(ev) ==
    LET t == ev.tenant_id
        row == [id |-> Len(runtime_events) + 1, tenant_id |-> t, type |-> ev.type,
                payload |-> ev.payload, cause |-> ev.cause, seq |-> ev.seq]
        projects == t \in DOMAIN tenant_runtime /\ MappedState(ev.type, ev.payload) # ""
        sockets == IF t \in DOMAIN connections THEN connections[t] ELSE {} IN
    /\ Len(runtime_events) < MaxEvents
    /\ runtime_events' = Append(runtime_events, row)
    /\ tenant_runtime' =
         IF projects
         THEN [tenant_runtime EXCEPT ![t] = ProjectRuntimeRow(@, ev.type, ev.payload)]
         ELSE tenant_runtime
    /\ tenants' =
         IF projects
         THEN {IF tr.id = t THEN [tr EXCEPT !.status = MappedState(ev.type, ev.payload)] ELSE tr
               : tr \in tenants}
         ELSE tenants
    /\ ws_frames' = [w \in DOMAIN ws_frames |->
                       IF w \in sockets /\ w \notin ws_broken
                       THEN Append(ws_frames[w], RowToWire(row))
                       ELSE ws_frames[w]]
    /\ connections' = [x \in DOMAIN connections |->
                         IF x = t THEN connections[x] \ ws_broken ELSE connections[x]]

\* redis publish on channel tenant:<id>:events: the envelope reaches the
\* subscriptions that exist at that moment (here: the consumer's, if any).
BusDeliver(queue, ev) == IF consumer = "subscribed" THEN Append(queue, ev) ELSE queue

\* The variant that drops the envelope when the bus is unreachable.
EmitWithoutFallback(t, type, state, message, cause) ==
    /\ emit_count' = emit_count + 1
    /\ cp_redis' = IF bus_up THEN "client" ELSE "none"
    /\ bus_up => Len(bus_queue) < MaxBusQueue
    /\ bus_queue' = IF bus_up
                    THEN BusDeliver(bus_queue,
                                    Envelope(t, type, state, message, cause, emit_count + 1))
                    ELSE bus_queue
    /\ UNCHANGED eventVars

\* EventManager.emit(tenant_id, event_type, payload): with the bus reachable
\* the client is (re)connected and the envelope published; otherwise the
\* client is dropped and the envelope persisted and broadcast in-process.
\* Closing the client (_disconnect_redis) closes the consumer's subscription
\* connection too when the client owns its connection pool: what the
\* consumer had not read yet is then lost, otherwise it stays readable.
Emit(t, type, state, message, cause) ==
    LET ev == Envelope(t, type, state, message, cause, emit_count + 1) IN
    /\ emit_count' = emit_count + 1
    /\ IF bus_up
       THEN /\ cp_redis' = "client"
            /\ Len(bus_queue) < MaxBusQueue
            /\ bus_queue' = BusDeliver(bus_queue, ev)
            /\ UNCHANGED eventVars
       ELSE /\ cp_redis' = "none"
            /\ PersistAndBroadcast(ev)
            /\ bus_queue' \in {bus_queue, <<>>}

(***************************************************************************)
(* Requests suspended at an await.                                         *)
(***************************************************************************)
Slots == 1..MaxInflight
\* Body of a Runner call without one.
NoRuntime == [desired_state |-> "", actual_state |-> "", last_error |-> ""]
NoSecret == [bridge_shared_secret |-> "", assistant_defaults_version |-> "",
             google_oauth |-> FALSE, google_oauth_last_error |-> ""]
NoPayload == [env |-> EmptyDict, prompts |-> EmptyDict, skills |-> EmptyDict, secret |-> ""]
NoRequest ==
    [kind |-> "none", action |-> "none", rid |-> 0, user |-> 0, tenant |-> NoTenant,
     stage |-> "none",
     payload |-> NoPayload, pending |-> {}, pending_skills |-> {},
     loaded |-> NoSecret, runtime |-> NoRuntime, health |-> FALSE,
     runner_status |-> 0, runner_error |-> "",
     emits |-> <<>>, status |-> 0, error |-> ""]

\* No handler is suspended at an await.
NoRequestInFlight == \A s \in Slots : requests[s].kind = "none"
HasFreeSlot == \E s \in Slots : requests[s].kind = "none"
FreeSlot == CHOOSE s \in Slots :
                /\ requests[s].kind = "none"
                /\ \A s2 \in Slots : s2 < s => requests[s2].kind # "none"

\* The response of a handler; actual_state is the field of TenantStatusOut
\* ("" in every other response).
Response(kind, u, t, status, error, rid) ==
    [kind |-> kind, user |-> u, tenant |-> t, status |-> status, error |-> error, rid |-> rid,
     actual_state |-> ""]
NoResponse == Response("none", 0, NoTenant, 0, "", 0)

\* last_response holds one response until its client has read it; the
\* segments of the model run between two such reads.
ResponseTaken == last_response = NoResponse

\* A handler reaches its Runner call: it is parked in a free slot.  pending
\* and pending_skills are the PromptRevision and SkillRevision rows it has
\* added to its session and not flushed, as [key, revision, content]; loaded
\* and runtime are the secret payload and the TenantRuntime object its
\* session holds.
Suspend(kind, action, u, t, payload, pending, pending_skills) ==
    /\ ResponseTaken
    /\ HasFreeSlot
    /\ next_rid <= MaxRequests
    /\ requests' = [requests EXCEPT ![FreeSlot] =
                      [NoRequest EXCEPT !.kind = kind, !.action = action,
                                        !.rid = next_rid, !.user = u,
                                        !.tenant = t, !.stage = "runner",
                                        !.payload = payload, !.pending = pending,
                                        !.pending_skills = pending_skills,
                                        !.loaded = IF t \in DOMAIN tenant_secrets
                                                   THEN tenant_secrets[t] ELSE NoSecret,
                                        !.runtime = IF t \in DOMAIN tenant_runtime
                                                    THEN tenant_runtime[t] ELSE NoRuntime]]
    /\ next_rid' = next_rid + 1

\* A handler returns (or raises) without having reached an await.
Respond(kind, u, t, status, error) ==
    /\ ResponseTaken
    /\ last_response' = Response(kind, u, t, status, error, 0)

(***************************************************************************)
(* Runner: main.py endpoints as served for a control-plane call.           *)
(***************************************************************************)
\* The compose file of the tenant exists (written by provision only).
ComposeExists(t) == t \in DOMAIN runner_files /\ runner_files[t].compose

\* How the endpoint ends: "none" (never ran), "ok", or the RuntimeErrorManager
\* code it raised.  compose_start, compose_stop and compose_restart begin with
\* validate_layout(require_existing=True); apply_config has created the
\* directories by then; is_running checks no layout.
RunnerResult(kind, t, outcome) ==
    IF outcome \in {"rejected", "unreachable"} THEN "none"
    ELSE IF kind = "health"
    THEN (IF outcome = "failed" THEN "docker_unavailable" ELSE "ok")
    ELSE IF kind = "provision"
    THEN (IF outcome = "failed" THEN "docker_command_failed" ELSE "ok")
    ELSE IF kind # "apply_config" /\ t \notin DOMAIN runner_files THEN "tenant_not_found"
    ELSE IF ~ComposeExists(t) THEN "compose_missing"
    ELSE IF outcome = "failed" THEN "docker_command_failed"
    ELSE "ok"

\* _runtime_http_error: status of a RuntimeErrorManager code.
RuntimeHttpStatus(code) ==
    CASE code \in {"tenant_not_found", "compose_missing"} -> 404
      [] code = "docker_unavailable" -> 503
      [] code = "docker_command_failed" -> 502
      [] OTHER -> 500

\* Status the control plane's RunnerClient sees (RunnerError.status_code).
RunnerStatus(kind, t, outcome) ==
    LET result == RunnerResult(kind, t, outcome) IN
    CASE outcome = "rejected" -> 403
      [] outcome \in {"unreachable", "reply_lost"} -> 502
      [] result = "ok" -> 200
      [] OTHER -> RuntimeHttpStatus(result)

\* RunnerError.code
RunnerCode(kind, t, outcome) ==
    LET result == RunnerResult(kind, t, outcome) IN
    CASE outcome = "rejected" -> "invalid_token"
      [] outcome \in {"unreachable", "reply_lost"} -> "runner_http_error"
      [] result = "ok" -> ""
      [] OTHER -> result

\* str(RunnerError) for a code: the message of the RuntimeErrorManager or
\* AuthError the Runner raised, or the text RunnerClient builds around a
\* transport failure.
RunnerMessage(code) ==
    CASE code = "docker_command_failed" -> "command_failed args output"
      [] code = "docker_unavailable" -> "command_exec_error args error"
      [] code = "tenant_not_found" -> "Tenant directory not found"
      [] code = "compose_missing" -> "Compose file not found"
      [] code = "invalid_token" -> "Invalid internal JWT"
      [] code = "runner_http_error" -> "runner_http_error: transport"
      [] OTHER -> ""

\* Files of the tenant after the endpoint ran: provision writes the compose
\* file, env with BRIDGE_SHARED_SECRET added and write_config_files(prompts=[],
\* skills=[]); apply_config writes env, prompts and skills of its body and
\* unlinks every other prompt and skill file.
RunnerFilesAfter(kind, t, payload, outcome) ==
    IF RunnerResult(kind, t, outcome) = "none" THEN runner_files
    ELSE IF kind = "provision"
    THEN DictSet(runner_files, t,
                 [compose |-> TRUE,
                  env |-> DictSet(payload.env, "BRIDGE_SHARED_SECRET", payload.secret),
                  prompts |-> EmptyDict, skills |-> EmptyDict])
    ELSE IF kind = "apply_config"
    THEN DictSet(runner_files, t,
                 [compose |-> ComposeExists(t), env |-> payload.env,
                  prompts |-> payload.prompts, skills |-> payload.skills])
    ELSE runner_files

\* The tenant's container after the endpoint ran: compose up, start and
\* restart leave it running, compose stop leaves it stopped; a failed compose
\* step leaves it as it was.
ContainersAfter(kind, t, outcome) ==
    IF RunnerResult(kind, t, outcome) # "ok" \/ kind = "health" THEN containers
    ELSE DictSet(containers, t, kind # "stop")

\* The type and state of the event the endpoint publishes on success.
RunnerSuccessEvent(kind) ==
    CASE kind = "provision" -> <<"runtime.status", "pending_pairing">>
      [] kind = "start" -> <<"runtime.status", "running">>
      [] kind = "stop" -> <<"runtime.status", "paused">>
      [] kind = "restart" -> <<"runtime.status", "running">>
      [] kind = "pair_start" -> <<"runtime.status", "pending_pairing">>
      [] kind = "apply_config" -> <<"config.applied", "">>
      [] kind = "whatsapp_disconnect" -> <<"whatsapp.disconnected", "">>
      [] OTHER -> <<"", "">>

\* publisher.publish of the endpoint: the success event, or runtime.error
\* from the except branch; health publishes nothing.  Lost when the bus is
\* unreachable (publish never raises).
RunnerPublished(r, outcome) ==
    LET result == RunnerResult(r.action, r.tenant, outcome) IN
    IF result = "none" \/ r.action = "health" \/ ~bus_up THEN <<>>
    ELSE IF result = "ok"
    THEN <<Envelope(r.tenant, RunnerSuccessEvent(r.action)[1],
                    RunnerSuccessEvent(r.action)[2], "", r.rid, 0)>>
    ELSE <<Envelope(r.tenant, "runtime.error", "", RunnerMessage(result), r.rid, 0)>>

\* The endpoints under /internal/tenants/{tenant_id}/ and their action names.
RunnerActions == {"provision", "start", "stop", "restart", "pair_start", "apply_config",
                  "whatsapp_disconnect", "health"}

\* Authorization header values: absent, a non-Bearer scheme, or "Bearer "
\* followed by a token.  valid: jwt.decode accepts the token (signature,
\* expiry, audience "runner"); tenant_id and action are its claims.
NoAuthorization == [scheme |-> "none", valid |-> FALSE, tenant_id |-> NoTenant, action |-> "none"]
BasicAuthorization == [scheme |-> "Basic", valid |-> FALSE, tenant_id |-> NoTenant, action |-> "none"]
BearerToken(valid, t, action) ==
    [scheme |-> "Bearer", valid |-> valid, tenant_id |-> t, action |-> action]

\* Variant: the action claim is not compared.
VerifyTenantClaimOnly(token, tenant_id, action) ==
    IF ~token.valid THEN "invalid_token"
    ELSE IF token.tenant_id # tenant_id THEN "tenant_scope_mismatch"
    ELSE ""
\* verify_internal_token: the AuthError code, "" when the claims are returned.
VerifyInternalToken(token, tenant_id, action) ==
    IF ~token.valid THEN "invalid_token"
    ELSE IF token.tenant_id # tenant_id THEN "tenant_scope_mismatch"
    ELSE IF token.action # action THEN "action_scope_mismatch"
    ELSE ""

\* require_internal_auth: the HTTPException it raises, status 200 when none.
RequireInternalAuth(tenant_id, action, authorization) ==
    IF authorization.scheme # "Bearer"
    THEN [status |-> 401, error |-> "missing_bearer_token"]
    ELSE LET code == VerifyInternalToken(authorization, tenant_id, action) IN
         IF code # "" THEN [status |-> 403, error |-> code]
         ELSE [status |-> 200, error |-> ""]

\* No direct call answered yet.
NoRunnerResponse ==
    [tenant |-> NoTenant, action |-> "none", auth |-> NoAuthorization,
     status |-> 0, error |-> "", published |-> <<>>]

\* A caller on the internal network posts to an endpoint with an
\* Authorization header of its own; published (ghost) is what the endpoint
\* handed to publisher.publish.
RunnerCall(t, endpoint, authorization, payload, outcome) ==
    LET auth == RequireInternalAuth(t, endpoint, authorization)
        published == RunnerPublished([action |-> endpoint, tenant |-> t, rid |-> 0], outcome) IN
    /\ IF auth.status # 200
       THEN /\ runner_response' = [tenant |-> t, action |-> endpoint, auth |-> authorization,
                                   status |-> auth.status, error |-> auth.error,
                                   published |-> <<>>]
            /\ UNCHANGED <<runner_files, containers, bus_queue>>
       ELSE /\ runner_files' = RunnerFilesAfter(endpoint, t, payload, outcome)
            /\ containers' = ContainersAfter(endpoint, t, outcome)
            /\ bus_queue' = IF published = <<>> THEN bus_queue
                            ELSE BusDeliver(bus_queue, published[1])
            /\ Len(bus_queue') <= MaxBusQueue
            /\ runner_response' = [tenant |-> t, action |-> endpoint, auth |-> authorization,
                                   status |-> RunnerStatus(endpoint, t, outcome),
                                   error |-> RunnerCode(endpoint, t, outcome),
                                   published |-> published]
    /\ UNCHANGED <<dbVars, nexus_image, requests, last_response, next_rid, emit_count,
                   cp_redis, consumer, bus_up, wsVars, monitorVars, publisherVars>>

\* The Runner call of a suspended handler returns or raises RunnerError.
RunnerReply(s, outcome) ==
    LET r == requests[s]
        published == RunnerPublished(r, outcome) IN
    /\ r.stage = "runner"
    /\ ResponseTaken
    /\ runner_files' = RunnerFilesAfter(r.action, r.tenant, r.payload, outcome)
    /\ containers' = ContainersAfter(r.action, r.tenant, outcome)
    /\ Len(bus_queue) + Len(published) <= MaxBusQueue
    /\ bus_queue' = IF published = <<>> THEN bus_queue ELSE BusDeliver(bus_queue, published[1])
    /\ requests' = [requests EXCEPT ![s].stage = "resume",
                                    ![s].health = r.tenant \in DOMAIN containers
                                                  /\ containers[r.tenant],
                                    ![s].runner_status = RunnerStatus(r.action, r.tenant, outcome),
                                    ![s].runner_error = RunnerCode(r.action, r.tenant, outcome)]
    /\ UNCHANGED <<dbVars, nexus_image, last_response, next_rid, emit_count, cp_redis,
                   consumer, wsVars, bus_up, runner_response, monitorVars,
                   publisherVars>>

(***************************************************************************)
(* Control-plane handlers: routers/tenants.py.                             *)
(***************************************************************************)
\* The handler leaves its last segment: it returns if it has no emit left,
\* else it goes on emitting.  emits are <<type, state, message>>.
Proceed(s, status, error, emits) ==
    LET r == requests[s] IN
    /\ ResponseTaken
    /\ IF emits = <<>>
       THEN /\ requests' = [requests EXCEPT ![s] = NoRequest]
            /\ last_response' = Response(r.kind, r.user, r.tenant, status, error, r.rid)
       ELSE /\ requests' = [requests EXCEPT ![s].stage = "emit", ![s].emits = emits,
                                            ![s].status = status, ![s].error = error]
            /\ UNCHANGED last_response

\* One await _emit(...) of a handler; after the last one the handler returns
\* (or raises the HTTPException _runner_call built).
EmitNext(s) ==
    LET r == requests[s]
        e == r.emits[1] IN
    /\ r.stage = "emit"
    /\ Emit(r.tenant, e[1], e[2], e[3], r.rid)
    /\ Proceed(s, r.status, r.error, Tail(r.emits))
    /\ UNCHANGED <<tenant_secrets, revisionVars, nexus_image, next_rid, consumer,
                   ws_broken, ws_conn, bus_up, runnerVars>>

\* Variant: the RunnerError of the call is swallowed.
RunnerCallNeverFails(r) == TRUE
\* _runner_call: the call returned without RunnerError.
RunnerCallOk(r) == r.runner_status = 200

\* _runner_call's except branch: emit runtime.error, raise HTTPException with
\* the RunnerError's status code.
RunnerCallFailed(s) ==
    LET r == requests[s] IN
    Proceed(s, r.runner_status, r.runner_error,
            <<<<"runtime.error", "", RunnerMessage(r.runner_error)>>>>)

\* Variables no tenants.py segment before an emit touches.
processVars == <<nexus_image, emit_count, busVars, wsVars, runnerVars>>

DefaultEnv == [NEXUS_CLI_ENABLED |-> "false"]
BridgeSecret == "bridge-secret"

\* POST /v1/tenants/setup up to the await of runner.provision.  ids are the
\* values token_hex returns on the attempts of the retry loop.
SetupBegin(u, cfg, ids) ==
    LET initial_env == DictUpdate(DefaultEnv, cfg)
        fresh == {i \in 1..SetupAttempts : ~TenantExists(ids[i])}
        tid == ids[CHOOSE i \in fresh : \A j \in fresh : i <= j] IN
    IF TenantsOfOwner(u) # {}
    THEN /\ Respond("setup", u, (CHOOSE row \in TenantsOfOwner(u) : TRUE).id, 200, "")
         /\ UNCHANGED <<dbVars, requests, next_rid>>
    ELSE IF ~ValidNexusImage(nexus_image)
    THEN /\ Respond("setup", u, NoTenant, 400, "nexus_image_invalid")
         /\ UNCHANGED <<dbVars, requests, next_rid>>
    ELSE IF ~HasOpenrouterApiKey(initial_env)
    THEN /\ Respond("setup", u, NoTenant, 400, "openrouter_api_key_required")
         /\ UNCHANGED <<dbVars, requests, next_rid>>
    ELSE IF fresh = {}
    THEN /\ Respond("setup", u, NoTenant, 409, "tenant_setup_conflict")
         /\ UNCHANGED <<dbVars, requests, next_rid>>
    ELSE /\ tenants' = tenants \cup {[id |-> tid, owner_user_id |-> u, status |-> "provisioning"]}
         /\ tenant_runtime' = DictSet(tenant_runtime, tid,
                [desired_state |-> "stopped", actual_state |-> "provisioning", last_error |-> ""])
         /\ tenant_secrets' = DictSet(tenant_secrets, tid,
                [bridge_shared_secret |-> BridgeSecret,
                 assistant_defaults_version |-> ASSISTANT_DEFAULTS_VERSION,
                 google_oauth |-> FALSE, google_oauth_last_error |-> ""])
         /\ config_revisions' = config_revisions \cup
                {[tenant_id |-> tid, revision |-> 1, env_json |-> initial_env, is_active |-> TRUE]}
         /\ prompt_revisions' = prompt_revisions \cup
                {[tenant_id |-> tid, name |-> n, revision |-> 1,
                  content |-> PROMPT_DEFAULTS[n], is_active |-> TRUE] : n \in DOMAIN PROMPT_DEFAULTS}
         /\ skill_revisions' = skill_revisions \cup
                {[tenant_id |-> tid, skill_id |-> k, revision |-> 1,
                  content |-> SKILL_DEFAULTS[k], is_active |-> TRUE] : k \in DOMAIN SKILL_DEFAULTS}
         /\ Suspend("setup", "provision", u, tid,
                    [env |-> initial_env, prompts |-> PROMPT_DEFAULTS,
                     skills |-> SKILL_DEFAULTS, secret |-> BridgeSecret], {}, {})
         /\ UNCHANGED <<runtime_events, last_response>>

SetupTenant(u, cfg, ids) ==
    /\ SetupBegin(u, cfg, ids)
    /\ UNCHANGED processVars

\* setup_tenant from the return of runner.provision to the emit: the try
\* branch, or the except RunnerError branch; both end in 200.
SetupResume(s) ==
    LET r == requests[s]
        t == r.tenant IN
    /\ r.kind = "setup" /\ r.stage = "resume"
    /\ tenants' = {IF row.id = t
                   THEN [row EXCEPT !.status = IF RunnerCallOk(r) THEN "pending_pairing" ELSE "error"]
                   ELSE row : row \in tenants}
    /\ tenant_runtime' = [tenant_runtime EXCEPT ![t] =
            IF RunnerCallOk(r)
            THEN [@ EXCEPT !.desired_state = "running", !.actual_state = "pending_pairing"]
            ELSE [@ EXCEPT !.actual_state = "error",
                           !.last_error = r.runner_error \o ": " \o RunnerMessage(r.runner_error)]]
    /\ Proceed(s, 200, "",
               IF RunnerCallOk(r) THEN <<<<"runtime.status", "pending_pairing", "">>>>
               ELSE <<<<"runtime.error", "", RunnerMessage(r.runner_error)>>>>)
    /\ UNCHANGED <<tenant_secrets, revisionVars, runtime_events, next_rid, processVars>>

RuntimeOps == {"start", "stop", "restart", "pair_start", "whatsapp_disconnect"}
\* The operations that call _require_openrouter_api_key and
\* _require_valid_nexus_image before the Runner.
GatedOps == {"start", "restart", "pair_start"}

\* Variant: every operation leaves the runtime running.
OpStateRunning(kind) == "running"
\* desired_state and actual_state the handler writes after the Runner call.
OpState(kind) ==
    CASE kind \in {"start", "restart"} -> "running"
      [] kind = "stop" -> "paused"
      [] OTHER -> "pending_pairing"

\* The emits of the handler after its commit.
OpEmits(kind) ==
    IF kind = "whatsapp_disconnect"
    THEN <<<<"whatsapp.disconnected", "", "">>, <<"runtime.status", "pending_pairing", "">>>>
    ELSE <<<<"runtime.status", OpState(kind), "">>>>

\* start_tenant_runtime, stop_tenant_runtime, restart_tenant_runtime,
\* pair_start, whatsapp_disconnect up to the await of the Runner call.
RuntimeOpBegin(kind, u, t) ==
    /\ IF ~TenantForOwner(t, u)
       THEN /\ Respond(kind, u, t, 404, "Tenant not found")
            /\ UNCHANGED <<requests, next_rid>>
       ELSE IF kind \in GatedOps /\ ~RequireOpenrouterApiKeyOk(t)
       THEN /\ Respond(kind, u, t, 400, "openrouter_api_key_required")
            /\ UNCHANGED <<requests, next_rid>>
       ELSE IF kind \in GatedOps /\ ~ValidNexusImage(nexus_image)
       THEN /\ Respond(kind, u, t, 400, "nexus_image_invalid")
            /\ UNCHANGED <<requests, next_rid>>
       ELSE /\ Suspend(kind, kind, u, t, NoPayload, {}, {})
            /\ UNCHANGED last_response
    /\ UNCHANGED <<dbVars, processVars>>

\* The same handlers from the return of the Runner call to the first emit.
RuntimeOpResume(s) ==
    LET r == requests[s]
        t == r.tenant IN
    /\ r.kind \in RuntimeOps /\ r.stage = "resume"
    /\ IF RunnerCallOk(r)
       THEN /\ tenant_runtime' = [tenant_runtime EXCEPT ![t] =
                  [@ EXCEPT !.desired_state = OpState(r.kind),
                            !.actual_state = OpState(r.kind),
                            !.last_error = IF r.kind = "whatsapp_disconnect" THEN "" ELSE @]]
            /\ Proceed(s, 200, "", OpEmits(r.kind))
       ELSE /\ RunnerCallFailed(s)
            /\ UNCHANGED tenant_runtime
    /\ UNCHANGED <<tenants, tenant_secrets, revisionVars, runtime_events, next_rid, processVars>>

\* Payload of runner.apply_config built from the rows active at that moment.
ApplyPayload(t) ==
    [env |-> IF HasActiveConfig(t) THEN ActiveConfigRow(t).env_json ELSE EmptyDict,
     prompts |-> PromptDict(ActivePrompts(t)),
     skills |-> SkillDict(ActiveSkills(t)),
     secret |-> ""]

\* PUT /v1/tenants/{id}/prompts/{name} up to the await of runner.apply_config.
PutPromptBegin(u, t, name, content) ==
    /\ IF ~TenantForOwner(t, u)
       THEN /\ Respond("put_prompt", u, t, 404, "Tenant not found")
            /\ UNCHANGED <<requests, next_rid>>
       ELSE /\ NextPromptRevision(t, name) <= MaxRevision
            /\ Suspend("put_prompt", "apply_config", u, t,
                       [ApplyPayload(t) EXCEPT !.prompts = DictSet(@, name, content)],
                       {[key |-> name, revision |-> NextPromptRevision(t, name),
                         content |-> content]}, {})
            /\ UNCHANGED last_response
    /\ UNCHANGED <<dbVars, processVars>>

\* uq_prompt_revision (tenant_id, name, revision) rejects a pending row at
\* the commit: IntegrityError.
PromptRevisionTaken(t, pending) ==
    \E p \in prompt_revisions : \E q \in pending :
        p.tenant_id = t /\ p.name = q.key /\ p.revision = q.revision

\* Variant: the pending rows are inserted active, no row is deactivated.
ActivatePromptsWithoutUpdate(rows, t, pending) ==
    rows \cup {[tenant_id |-> t, name |-> q.key, revision |-> q.revision,
                content |-> q.content, is_active |-> TRUE] : q \in pending}
\* update(PromptRevision).where(tenant, name [in updates]).values(is_active=
\* False); rev.is_active = True; db.commit(): the rows of the names are
\* deactivated, the pending rows (never flushed before) are inserted active.
ActivatePrompts(rows, t, pending) ==
    {IF p.tenant_id = t /\ p.name \in {q.key : q \in pending}
     THEN [p EXCEPT !.is_active = FALSE] ELSE p : p \in rows}
    \cup {[tenant_id |-> t, name |-> q.key, revision |-> q.revision,
           content |-> q.content, is_active |-> TRUE] : q \in pending}

\* put_prompt from the return of runner.apply_config: activation and commit
\* (IntegrityError: 500, the transaction is rolled back), or RunnerError.
PutPromptResume(s) ==
    LET r == requests[s]
        t == r.tenant IN
    /\ r.kind = "put_prompt" /\ r.stage = "resume"
    /\ IF ~RunnerCallOk(r)
       THEN /\ RunnerCallFailed(s)
            /\ UNCHANGED prompt_revisions
       ELSE IF PromptRevisionTaken(t, r.pending)
       THEN /\ Proceed(s, 500, "IntegrityError", <<>>)
            /\ UNCHANGED prompt_revisions
       ELSE /\ prompt_revisions' = ActivatePrompts(prompt_revisions, t, r.pending)
            /\ Proceed(s, 200, "", <<<<"config.applied", "", "">>>>)
    /\ UNCHANGED <<tenants, tenant_runtime, tenant_secrets, config_revisions, skill_revisions,
                   runtime_events, next_rid, processVars>>

\* PUT /v1/tenants/{id}/skills/{skill_id} up to the await of runner.apply_config.
PutSkillBegin(u, t, sid, content) ==
    /\ IF ~TenantForOwner(t, u)
       THEN /\ Respond("put_skill", u, t, 404, "Tenant not found")
            /\ UNCHANGED <<requests, next_rid>>
       ELSE /\ NextSkillRevision(t, sid) <= MaxRevision
            /\ Suspend("put_skill", "apply_config", u, t,
                       [ApplyPayload(t) EXCEPT !.skills = DictSet(@, sid, content)],
                       {}, {[key |-> sid, revision |-> NextSkillRevision(t, sid),
                             content |-> content]})
            /\ UNCHANGED last_response
    /\ UNCHANGED <<dbVars, processVars>>

\* uq_skill_revision (tenant_id, skill_id, revision) rejects a pending row.
SkillRevisionTaken(t, pending) ==
    \E k \in skill_revisions : \E q \in pending :
        k.tenant_id = t /\ k.skill_id = q.key /\ k.revision = q.revision

\* update(SkillRevision).where(tenant, skill_id [in updates]).values(is_active=
\* False); rev.is_active = True; db.commit().
ActivateSkills(rows, t, pending) ==
    {IF k.tenant_id = t /\ k.skill_id \in {q.key : q \in pending}
     THEN [k EXCEPT !.is_active = FALSE] ELSE k : k \in rows}
    \cup {[tenant_id |-> t, skill_id |-> q.key, revision |-> q.revision,
           content |-> q.content, is_active |-> TRUE] : q \in pending}

\* put_skill from the return of runner.apply_config.
PutSkillResume(s) ==
    LET r == requests[s]
        t == r.tenant IN
    /\ r.kind = "put_skill" /\ r.stage = "resume"
    /\ IF ~RunnerCallOk(r)
       THEN /\ RunnerCallFailed(s)
            /\ UNCHANGED skill_revisions
       ELSE IF SkillRevisionTaken(t, r.pending_skills)
       THEN /\ Proceed(s, 500, "IntegrityError", <<>>)
            /\ UNCHANGED skill_revisions
       ELSE /\ skill_revisions' = ActivateSkills(skill_revisions, t, r.pending_skills)
            /\ Proceed(s, 200, "", <<<<"config.applied", "", "">>>>)
    /\ UNCHANGED <<tenants, tenant_runtime, tenant_secrets, config_revisions, prompt_revisions,
                   runtime_events, next_rid, processVars>>

\* PATCH /v1/tenants/{id}/config.  ConfigPatchRequest (schemas.py) declares
\* only "values", so "for key in body.remove_keys" raises AttributeError:
\* with an active config the handler ends in 500 before it adds a row or
\* calls the Runner.
PatchConfig(u, t, values) ==
    /\ IF ~TenantForOwner(t, u)
       THEN Respond("patch_config", u, t, 404, "Tenant not found")
       ELSE IF ~HasActiveConfig(t)
       THEN Respond("patch_config", u, t, 404, "Active config not found")
       ELSE Respond("patch_config", u, t, 500, "AttributeError")
    /\ UNCHANGED <<dbVars, requests, next_rid, processVars>>

\* assistant_bootstrap: the content of the active row of a name, or None.
CurrentPrompt(t, name) ==
    IF \E p \in ActivePrompts(t) : p.name = name
    THEN (CHOOSE p \in ActivePrompts(t) : p.name = name).content ELSE NoContent
CurrentSkill(t, sid) ==
    IF \E k \in ActiveSkills(t) : k.skill_id = sid
    THEN (CHOOSE k \in ActiveSkills(t) : k.skill_id = sid).content ELSE NoContent

\* assistant_bootstrap: the keys of prompt_updates and skill_updates.
PromptUpdates(t) ==
    LET changed == tenant_secrets[t].assistant_defaults_version # ASSISTANT_DEFAULTS_VERSION IN
    {n \in DOMAIN PROMPT_DEFAULTS :
        (changed /\ n \in MANAGED_PROMPT_IDS) \/ PromptNeedsDefault(n, CurrentPrompt(t, n))}
SkillUpdates(t) ==
    LET changed == tenant_secrets[t].assistant_defaults_version # ASSISTANT_DEFAULTS_VERSION IN
    {k \in DOMAIN SKILL_DEFAULTS :
        (changed /\ k \in MANAGED_SKILL_IDS) \/ SkillNeedsDefault(k, CurrentSkill(t, k))}

\* POST /v1/tenants/{id}/assistant/bootstrap up to the await of
\* runner.apply_config, or to its return when nothing needs a default.
BootstrapBegin(u, t) ==
    /\ IF ~TenantForOwner(t, u)
       THEN /\ Respond("bootstrap", u, t, 404, "Tenant not found")
            /\ UNCHANGED <<requests, next_rid, tenant_secrets>>
       ELSE IF PromptUpdates(t) = {} /\ SkillUpdates(t) = {}
       THEN /\ tenant_secrets' = [tenant_secrets EXCEPT
                   ![t].assistant_defaults_version = ASSISTANT_DEFAULTS_VERSION]
            /\ Respond("bootstrap", u, t, 200, "already_bootstrapped")
            /\ UNCHANGED <<requests, next_rid>>
       ELSE /\ \A n \in PromptUpdates(t) : NextPromptRevision(t, n) <= MaxRevision
            /\ \A k \in SkillUpdates(t) : NextSkillRevision(t, k) <= MaxRevision
            /\ Suspend("bootstrap", "apply_config", u, t,
                  [ApplyPayload(t) EXCEPT
                     !.prompts = DictUpdate(@, [n \in PromptUpdates(t) |-> PROMPT_DEFAULTS[n]]),
                     !.skills = DictUpdate(@, [k \in SkillUpdates(t) |-> SKILL_DEFAULTS[k]])],
                  {[key |-> n, revision |-> NextPromptRevision(t, n),
                    content |-> PROMPT_DEFAULTS[n]] : n \in PromptUpdates(t)},
                  {[key |-> k, revision |-> NextSkillRevision(t, k),
                    content |-> SKILL_DEFAULTS[k]] : k \in SkillUpdates(t)})
            /\ UNCHANGED <<last_response, tenant_secrets>>
    /\ UNCHANGED <<tenants, tenant_runtime, revisionVars, runtime_events, processVars>>

\* assistant_bootstrap from the return of runner.apply_config: rollback and
\* re-raise on failure; else both activations, the defaults version saved in
\* the secret payload read before the call, one commit.
BootstrapResume(s) ==
    LET r == requests[s]
        t == r.tenant IN
    /\ r.kind = "bootstrap" /\ r.stage = "resume"
    /\ IF ~RunnerCallOk(r)
       THEN /\ RunnerCallFailed(s)
            /\ UNCHANGED <<prompt_revisions, skill_revisions, tenant_secrets>>
       ELSE IF PromptRevisionTaken(t, r.pending) \/ SkillRevisionTaken(t, r.pending_skills)
       THEN /\ Proceed(s, 500, "IntegrityError", <<>>)
            /\ UNCHANGED <<prompt_revisions, skill_revisions, tenant_secrets>>
       ELSE /\ prompt_revisions' = ActivatePrompts(prompt_revisions, t, r.pending)
            /\ skill_revisions' = ActivateSkills(skill_revisions, t, r.pending_skills)
            /\ tenant_secrets' = [tenant_secrets EXCEPT ![t] =
                   [r.loaded EXCEPT !.assistant_defaults_version = ASSISTANT_DEFAULTS_VERSION]]
            /\ Proceed(s, 200, "applied_defaults", <<<<"assistant.bootstrap.applied", "", "">>>>)
    /\ UNCHANGED <<tenants, tenant_runtime, config_revisions, runtime_events, next_rid,
                   processVars>>

\* GET /v1/tenants/{id}/status up to the await of runner.health.
GetStatusBegin(u, t) ==
    /\ IF ~TenantForOwner(t, u)
       THEN /\ Respond("status", u, t, 404, "Tenant not found")
            /\ UNCHANGED <<requests, next_rid>>
       ELSE /\ Suspend("status", "health", u, t, NoPayload, {}, {})
            /\ UNCHANGED last_response
    /\ UNCHANGED <<dbVars, processVars>>

\* get_tenant_status: actual_state of the runtime object loaded before the
\* call, after the health answer.
StatusAfterHealth(runtime, container_running) ==
    IF container_running
    THEN (IF runtime.actual_state \in {"provisioning", "paused"} /\ runtime.desired_state = "running"
          THEN "running" ELSE runtime.actual_state)
    ELSE (IF runtime.actual_state \notin {"error", "deleted", "provisioning"}
          THEN "paused" ELSE runtime.actual_state)

\* get_tenant_status from the return of runner.health: the commit writes the
\* attributes of the loaded object that changed; RunnerError is swallowed.
\* The response is built from the loaded object (expire_on_commit=False).
GetStatusResume(s) ==
    LET r == requests[s]
        t == r.tenant
        actual == StatusAfterHealth(r.runtime, r.health)
        returned == IF RunnerCallOk(r) THEN actual ELSE r.runtime.actual_state IN
    /\ r.kind = "status" /\ r.stage = "resume"
    /\ ResponseTaken
    /\ tenant_runtime' =
         IF RunnerCallOk(r)
         THEN [tenant_runtime EXCEPT ![t] =
                 [@ EXCEPT !.actual_state = IF actual # r.runtime.actual_state THEN actual ELSE @,
                           !.last_error = IF actual # "error" /\ r.runtime.last_error # ""
                                          THEN "" ELSE @]]
         ELSE tenant_runtime
    /\ requests' = [requests EXCEPT ![s] = NoRequest]
    /\ last_response' = [Response(r.kind, r.user, t, 200, "", r.rid)
                            EXCEPT !.actual_state = returned]
    /\ UNCHANGED <<tenants, tenant_secrets, revisionVars, runtime_events, next_rid, processVars>>

\* The endpoints that only read: get_config, get_recent_events, get_prompts,
\* get_skills, google_status.
ReadKinds == {"get_config", "events_recent", "get_prompts", "get_skills", "google_status"}
ReadEndpoint(kind, u, t) ==
    /\ IF ~TenantForOwner(t, u)
       THEN Respond(kind, u, t, 404, "Tenant not found")
       ELSE IF kind = "get_config" /\ ~HasActiveConfig(t)
       THEN Respond(kind, u, t, 404, "Active config not found")
       ELSE Respond(kind, u, t, 200, "")
    /\ UNCHANGED <<dbVars, requests, next_rid, processVars>>

\* POST /v1/tenants/{id}/google/connect/start: the settings and the request
\* origin decide; nothing is stored (the state token is self-contained).
Origins == {"", "https://app.example", "https://evil.example"}
AllowedOrigins == {"https://app.example"}
GoogleConnectStart(u, t, configured, origin) ==
    /\ IF ~TenantForOwner(t, u)
       THEN Respond("google_connect_start", u, t, 404, "Tenant not found")
       ELSE IF ~configured
       THEN Respond("google_connect_start", u, t, 400, "google_oauth_not_configured")
       ELSE IF origin = ""
       THEN Respond("google_connect_start", u, t, 400, "google_oauth_origin_missing")
       ELSE IF origin \notin AllowedOrigins
       THEN Respond("google_connect_start", u, t, 403, "google_oauth_origin_forbidden")
       ELSE Respond("google_connect_start", u, t, 200, "")
    /\ UNCHANGED <<dbVars, requests, next_rid, processVars>>

\* POST /v1/tenants/{id}/google/disconnect: the secret payload without
\* google_oauth is committed, then runner.google_disconnect is looked up on
\* RunnerClient, which has no such method: AttributeError, 500.
GoogleDisconnect(u, t) ==
    /\ IF ~TenantForOwner(t, u)
       THEN /\ Respond("google_disconnect", u, t, 404, "Tenant not found")
            /\ UNCHANGED tenant_secrets
       ELSE /\ tenant_secrets' = [tenant_secrets EXCEPT ![t].google_oauth = FALSE]
            /\ Respond("google_disconnect", u, t, 500, "AttributeError")
    /\ UNCHANGED <<tenants, tenant_runtime, revisionVars, runtime_events, requests, next_rid,
                   processVars>>

\* The state parameter of GET /v1/oauth/google/callback: absent, a token of
\* another type (decode_google_oauth_state raises JWTError), or the token
\* create_google_oauth_state signed for user 1, tenant "ta" and the allowed
\* origin.  Nothing about an issued or a presented token is stored.
NoState == [type |-> "", user_id |-> 0, tenant_id |-> NoTenant, origin |-> "", nonce |-> ""]
IssuedState ==
    [type |-> "google_oauth_state", user_id |-> 1, tenant_id |-> "ta",
     origin |-> "https://app.example", nonce |-> "n1"]
OAuthStates == {NoState, [IssuedState EXCEPT !.type = "access"], IssuedState}

\* google_callback up to the await of exchange_code_for_tokens, or, when an
\* HTTPException is raised before it, up to the await of _emit in the except
\* branch (google_oauth_last_error is committed first).
GoogleCallbackBegin(state, code, error) ==
    LET t == state.tenant_id
        u == state.user_id
        denied == IF state.origin = "" THEN "Could not resolve request origin"
                  ELSE IF state.origin \notin AllowedOrigins THEN "Origin not allowed"
                  ELSE IF error # "" THEN error
                  ELSE IF code = "" THEN "Missing OAuth code"
                  ELSE ""
        parked == [NoRequest EXCEPT !.kind = "google_callback", !.action = "exchange",
                                    !.rid = next_rid, !.user = u, !.tenant = t] IN
    /\ IF state = NoState
       THEN /\ Respond("google_callback", 0, NoTenant, 200, "Missing OAuth state token")
            /\ UNCHANGED <<tenant_secrets, requests, next_rid>>
       ELSE IF state.type # "google_oauth_state"
       THEN /\ Respond("google_callback", 0, NoTenant, 200, "Invalid or expired OAuth state token")
            /\ UNCHANGED <<tenant_secrets, requests, next_rid>>
       ELSE IF ~TenantForOwner(t, u)
       THEN /\ Respond("google_callback", u, t, 200, "Tenant not found for OAuth state")
            /\ UNCHANGED <<tenant_secrets, requests, next_rid>>
       ELSE /\ ResponseTaken
            /\ HasFreeSlot
            /\ next_rid <= MaxRequests
            /\ next_rid' = next_rid + 1
            /\ UNCHANGED last_response
            /\ IF denied # ""
               THEN /\ tenant_secrets' =
                         [tenant_secrets EXCEPT ![t].google_oauth_last_error = denied]
                    /\ requests' = [requests EXCEPT ![FreeSlot] =
                         [parked EXCEPT !.stage = "emit", !.status = 200, !.error = denied,
                                        !.emits = <<<<"google.error", "", denied>>>>]]
               ELSE /\ requests' = [requests EXCEPT ![FreeSlot] =
                                      [parked EXCEPT !.stage = "exchange"]]
                    /\ UNCHANGED tenant_secrets
    /\ UNCHANGED <<tenants, tenant_runtime, revisionVars, runtime_events, processVars>>

\* What the token endpoint answers: tokens, tokens without a refresh token,
\* or an error status.
ExchangeOutcomes == {"ok", "no_refresh_token", "failed"}

\* google_callback from the return of exchange_code_for_tokens.  With tokens
\* the secret payload gets google_oauth and is committed, then the lambda of
\* _runner_call looks up runner.google_connect, which RunnerClient does not
\* define: AttributeError, 500, no event.  Otherwise the except branch.
GoogleCallbackResume(s, exchanged) ==
    LET r == requests[s]
        t == r.tenant
        message == IF exchanged = "failed" THEN "google_token_exchange_failed"
                   ELSE "Google did not return a refresh token." IN
    /\ r.kind = "google_callback" /\ r.stage = "exchange"
    /\ IF exchanged = "ok"
       THEN /\ tenant_secrets' = [tenant_secrets EXCEPT ![t].google_oauth = TRUE,
                                                        ![t].google_oauth_last_error = ""]
            /\ Proceed(s, 500, "AttributeError", <<>>)
       ELSE /\ tenant_secrets' =
                 [tenant_secrets EXCEPT ![t].google_oauth_last_error = message]
            /\ Proceed(s, 200, message, <<<<"google.error", "", message>>>>)
    /\ UNCHANGED <<tenants, tenant_runtime, revisionVars, runtime_events, next_rid,
                   processVars>>

\* The control plane is redeployed with another NEXUS_IMAGE setting while no
\* request is in flight: a new process, no redis client, no socket.
RestartControlPlane(image) ==
    /\ \A s \in Slots : requests[s].kind = "none"
    /\ ResponseTaken
    /\ image # nexus_image
    /\ nexus_image' = image
    /\ cp_redis' = "none"
    /\ consumer' = "backoff"
    /\ bus_queue' = <<>>
    /\ connections' = [t \in DOMAIN connections |-> {}]
    /\ ws_conn' = [w \in Sockets |->
                     IF ws_conn[w].state = "open" THEN [ws_conn[w] EXCEPT !.state = "closed"]
                     ELSE ws_conn[w]]
    /\ UNCHANGED <<dbVars, requests, last_response, next_rid, emit_count, bus_up, ws_frames,
                   ws_broken, runnerVars>>

(***************************************************************************)
(* The pub/sub bus and the consumer task: events.py.                       *)
(***************************************************************************)
\* The redis server stops answering: publish and ping raise from now on.
BusDown ==
    /\ bus_up
    /\ bus_up' = FALSE
    /\ UNCHANGED <<dbVars, nexus_image, requests, last_response, next_rid, emit_count,
                   cp_redis, consumer, bus_queue, wsVars, runnerVars>>

\* The redis server answers again.
BusUp ==
    /\ ~bus_up
    /\ bus_up' = TRUE
    /\ UNCHANGED <<dbVars, nexus_image, requests, last_response, next_rid, emit_count,
                   cp_redis, consumer, bus_queue, wsVars, runnerVars>>

\* _consume_supervisor: _connect_redis succeeds and _consume_once
\* psubscribes to tenant:*:events.
ConsumerSubscribe ==
    /\ consumer = "backoff"
    /\ bus_up
    /\ consumer' = "subscribed"
    /\ cp_redis' = "client"
    /\ UNCHANGED <<dbVars, nexus_image, requests, last_response, next_rid, emit_count,
                   bus_up, bus_queue, wsVars, runnerVars>>

\* _consume_once: get_message raises on the dead connection; the supervisor
\* drops the client and backs off.  What had not been read is lost.
ConsumerFail ==
    /\ consumer = "subscribed"
    /\ ~bus_up
    /\ consumer' = "backoff"
    /\ cp_redis' = "none"
    /\ bus_queue' = <<>>
    /\ UNCHANGED <<dbVars, nexus_image, requests, last_response, next_rid, emit_count,
                   bus_up, wsVars, runnerVars>>

\* _consume_once: get_message returns the next envelope, which is persisted
\* and broadcast.  The commit succeeds for a tenant_id that has a Tenant
\* row (runtime_events.tenant_id is a foreign key, enforced on both engines).
ConsumeMessage ==
    /\ consumer = "subscribed"
    /\ bus_queue # <<>>
    /\ TenantExists(Head(bus_queue).tenant_id)
    /\ PersistAndBroadcast(Head(bus_queue))
    /\ bus_queue' = Tail(bus_queue)
    /\ UNCHANGED <<tenant_secrets, revisionVars, nexus_image, requests, last_response,
                   next_rid, emit_count, cp_redis, consumer, bus_up, ws_broken, ws_conn,
                   runnerVars>>

\* _consume_once on an envelope whose tenant_id has no Tenant row: db.commit
\* raises IntegrityError inside _persist_and_broadcast, the exception leaves
\* _consume_once (pubsub.close in its finally) and _consume_supervisor drops
\* the client and sleeps its backoff.  Nothing is written; what the
\* subscription had not handed over yet is gone with it.
ConsumeUnpersistable ==
    /\ consumer = "subscribed"
    /\ bus_queue # <<>>
    /\ ~TenantExists(Head(bus_queue).tenant_id)
    /\ consumer' = "backoff"
    /\ cp_redis' = "none"
    /\ bus_queue' = <<>>
    /\ UNCHANGED <<dbVars, nexus_image, requests, last_response, next_rid, emit_count,
                   bus_up, wsVars, runnerVars>>

\* _reconcile_loop of the Runner, one tenant of one round: every tenant
\* directory and every running tenant gets runtime.status published, with
\* state running or paused after is_running; the payload has no "source".
ReconcilePublish(t) ==
    LET running == t \in DOMAIN containers /\ containers[t] IN
    /\ t \in DOMAIN runner_files \/ running
    /\ bus_up
    /\ Len(bus_queue) < MaxBusQueue
    /\ bus_queue' = BusDeliver(bus_queue,
                               Envelope(t, "runtime.status",
                                        IF running THEN "running" ELSE "paused", "", 0, 0))
    /\ UNCHANGED <<dbVars, nexus_image, requests, last_response, next_rid, emit_count,
                   cp_redis, consumer, bus_up, wsVars, runnerVars>>

\* States and sources of the runtime.status envelopes other publishers put
\* on the channel: "stopped" is a desired_state value, no actual_state.
ChannelStates == {"running", "stopped"}
ChannelSources == {"", "reconcile"}
ChannelEnvelope(t, state, source) ==
    [Envelope(t, "runtime.status", state, "", 0, 0) EXCEPT !.payload.source = source]

\* A message arrives on tenant:<id>:events from any client of the redis
\* server: _consume_once takes whatever matches the pattern and parses.
BusPublish(ev) ==
    /\ bus_up
    /\ Len(bus_queue) < MaxBusQueue
    /\ bus_queue' = BusDeliver(bus_queue, ev)
    /\ UNCHANGED <<dbVars, nexus_image, requests, last_response, next_rid, emit_count,
                   cp_redis, consumer, bus_up, wsVars, runnerVars>>

(***************************************************************************)
(* The WebSocket endpoint: routers/events_ws.py.                           *)
(***************************************************************************)
\* The frame events_ws sends after register.
ReadyFrame(t) ==
    [event_id |-> 0, tenant_id |-> t, type |-> "ws.ready",
     payload |-> [state |-> "", message |-> "", source |-> ""], cause |-> 0, seq |-> 0]

\* A query parameter of the WebSocket URL: absent, an integer literal, or
\* text that int() rejects.
NoParam == [kind |-> "absent", value |-> 0]

QueryParams ==
    {NoParam, [kind |-> "junk", value |-> 0]}
        \cup {[kind |-> "int", value |-> n] : n \in {-1, 0, 1, 2, 201}}

\* events_ws: replay defaults to "20"; int(replay), 20 on ValueError.
ReplayLimit(replay) == IF replay.kind = "int" THEN replay.value ELSE 20

\* The variant that sends the selected rows as the query returns them,
\* newest first.
ReplayRecentDescending(t, replay, after) ==
    LET n == Len(runtime_events)
        raw == ReplayLimit(replay)
        capped == IF raw < 200 THEN raw ELSE 200
        limit == IF capped > 0 THEN capped ELSE 0
        Selected(row) ==
            /\ row.tenant_id = t
            /\ (after.kind = "int" => row.id > after.value)
        Desc[i \in 0..n] ==
          IF i = 0 THEN <<>>
          ELSE IF Selected(runtime_events[n + 1 - i]) /\ Len(Desc[i - 1]) < limit
               THEN Append(Desc[i - 1], runtime_events[n + 1 - i])
               ELSE Desc[i - 1]
        rows == Desc[n] IN
    [i \in 1..Len(rows) |-> RowToWire(rows[i])]

\* replay_recent: limit = max(0, min(limit, 200)); nothing when it is 0;
\* else the tenant's rows (id > after_event_id when that is given) by id
\* descending, the first limit of them, sent in reversed order.
ReplayRecent(t, replay, after) ==
    LET n == Len(runtime_events)
        raw == ReplayLimit(replay)
        capped == IF raw < 200 THEN raw ELSE 200
        limit == IF capped > 0 THEN capped ELSE 0
        Selected(row) ==
            /\ row.tenant_id = t
            /\ (after.kind = "int" => row.id > after.value)
        Desc[i \in 0..n] ==
          IF i = 0 THEN <<>>
          ELSE IF Selected(runtime_events[n + 1 - i]) /\ Len(Desc[i - 1]) < limit
               THEN Append(Desc[i - 1], runtime_events[n + 1 - i])
               ELSE Desc[i - 1]
        rows == Desc[n] IN
    IF limit = 0 THEN <<>>
    ELSE [i \in 1..Len(rows) |-> RowToWire(rows[Len(rows) + 1 - i])]

\* events_ws up to its keepalive loop, for a client presenting the token of
\* user u (0: no valid access token) and the query parameters tenant_id,
\* replay and after_event_id.
WsConnect(w, u, tenant_param, replay, after) ==
    /\ ws_conn[w].state = "idle"
    /\ IF u = 0 \/ TenantsOfOwner(u) = {}
       THEN /\ ws_conn' = [ws_conn EXCEPT ![w] =
                  [state |-> "closed", user |-> u, tenant_param |-> tenant_param,
                   code |-> 1008, since |-> 0]]
            /\ UNCHANGED <<connections, ws_frames>>
       ELSE LET t == (CHOOSE row \in TenantsOfOwner(u) : TRUE).id IN
            /\ connections' = DictSet(connections, t,
                                  (IF t \in DOMAIN connections THEN connections[t] ELSE {})
                                  \cup {w})
            /\ ws_frames' = [ws_frames EXCEPT ![w] = <<ReadyFrame(t)>> \o ReplayRecent(t, replay, after)]
            /\ ws_conn' = [ws_conn EXCEPT ![w] =
                  [state |-> "open", user |-> u, tenant_param |-> tenant_param,
                   code |-> 0, since |-> next_rid]]
    /\ UNCHANGED <<dbVars, nexus_image, requests, last_response, next_rid, emit_count,
                   busVars, ws_broken, runnerVars>>

\* events_ws up to the await of its ws.ready send: the token is checked, the
\* tenant resolved, the socket accepted and added to the tenant's
\* connection set, and the ready frame handed to the socket.  From here on
\* a broadcast for the tenant writes to the socket.
WsRegister(w, u) ==
    /\ ws_conn[w].state = "idle"
    /\ TenantsOfOwner(u) # {}
    /\ LET t == (CHOOSE row \in TenantsOfOwner(u) : TRUE).id IN
       /\ connections' = DictSet(connections, t,
                             (IF t \in DOMAIN connections THEN connections[t] ELSE {})
                             \cup {w})
       /\ ws_frames' = [ws_frames EXCEPT ![w] = <<ReadyFrame(t)>>]
       /\ ws_conn' = [ws_conn EXCEPT ![w] =
             [state |-> "registered", user |-> u, tenant_param |-> NoTenant,
              code |-> 0, since |-> next_rid]]
    /\ UNCHANGED <<dbVars, nexus_image, requests, last_response, next_rid, emit_count,
                   busVars, ws_broken, runnerVars>>

\* events_ws resumes after the ready frame: replay_recent selects the rows
\* and sends them, oldest first; then the keepalive loop.
WsReplay(w, replay, after) ==
    /\ ws_conn[w].state = "registered"
    /\ LET t == (CHOOSE row \in TenantsOfOwner(ws_conn[w].user) : TRUE).id IN
       ws_frames' = [ws_frames EXCEPT ![w] = @ \o ReplayRecent(t, replay, after)]
    /\ ws_conn' = [ws_conn EXCEPT ![w].state = "open"]
    /\ UNCHANGED <<dbVars, nexus_image, requests, last_response, next_rid, emit_count,
                   busVars, connections, ws_broken, runnerVars>>

\* The peer of an accepted socket goes away: sends on it raise from now on.
WsPeerGone(w) ==
    /\ ws_conn[w].state = "open"
    /\ w \notin ws_broken
    /\ ws_broken' = ws_broken \cup {w}
    /\ UNCHANGED <<dbVars, nexus_image, requests, last_response, next_rid, emit_count,
                   busVars, connections, ws_frames, ws_conn, runnerVars>>

\* events_ws: receive_text raises WebSocketDisconnect; the socket is
\* unregistered.
WsUnregister(w) ==
    /\ ws_conn[w].state = "open"
    /\ w \in ws_broken
    /\ connections' = [t \in DOMAIN connections |-> connections[t] \ {w}]
    /\ ws_conn' = [ws_conn EXCEPT ![w].state = "closed"]
    /\ ws_broken' = ws_broken \ {w}
    /\ UNCHANGED <<dbVars, nexus_image, requests, last_response, next_rid, emit_count,
                   busVars, ws_frames, runnerVars>>

(***************************************************************************)
(* Initial state: empty database, no request, no socket, nothing on the    *)
(* runner host.                                                            *)
(***************************************************************************)
(***************************************************************************)
(* Runner: TenantMonitor, monitor.py.                                      *)
(***************************************************************************)
STARTUP_GRACE_SECONDS == 15
RECONNECT_GRACE_SECONDS == 20
RUNTIME_ERROR_COOLDOWN_SECONDS == 10
MAX_BACKOFF_SECONDS == 30

\* Largest number of tasks created, latest clock reading and longest record
\* of publish calls in one behaviour.
MaxTasks == 3
MaxClock == 100
MaxPublished == 4
\* Latest clock reading at which SpecMonitor lets an attempt begin.
\* Number of connection and of publish outcomes drawn for one publish call.
MaxOutcomes == 3
\* SpecCooldown: the step of the clock, and the latest reading at which an
\* attempt begins.
CooldownTick == 5
MaxCooldownClock == 15
MaxGraceClock == 25

\* The coroutines that call monitor.stop or monitor.shutdown: two request
\* handlers, or a handler and the lifespan.
Callers == {"c1", "c2"}
NoStopCall == [kind |-> "none", tenant_id |-> NoTenant, task |-> 0, rest |-> <<>>]

\* Variables the monitor's code does not touch.
outsideMonitor == <<dbVars, nexus_image, requests, last_response, next_rid, emit_count,
                    busVars, wsVars, runner_files, containers, runner_response,
                    publisherVars>>

\* asyncio.create_task(self._run(tenant_id)): the locals of _run as it
\* enters its loop.  last_connected_at is <<>> for None; failures (ghost)
\* counts the failed rounds since the last connection or the launch.
NewTask(t) ==
    [tenant_id |-> t, pc |-> "connect", cancel_requested |-> FALSE,
     backoff_seconds |-> 1, connected_once |-> FALSE, last_connected_at |-> <<>>,
     startup_grace_until |-> clock + STARTUP_GRACE_SECONDS,
     next_runtime_error_at |-> 0, wake_at |-> 0, failures |-> 0]

\* task.done()
TaskDone(k) == tasks[k].pc = "done"

\* asyncio.run has left the lifespan's finally block running: no request is
\* served any more.
ShuttingDown == \E c \in Callers : stop_calls[c].kind = "shutdown"

\* _prune_done_tasks
PruneDoneTasks ==
    [t \in {x \in DOMAIN monitor_tasks : ~TaskDone(monitor_tasks[x])} |-> monitor_tasks[t]]

\* dict.pop(tenant_id, None)
DictPop(d, k) == [x \in DOMAIN d \ {k} |-> d[x]]

\* TenantMonitor.start, called by an endpoint or by the reconcile loop.
MonitorStart(t) ==
    /\ ~ShuttingDown
    /\ IF t \in DOMAIN PruneDoneTasks
       THEN /\ monitor_tasks' = PruneDoneTasks
            /\ UNCHANGED tasks
       ELSE /\ Len(tasks) < MaxTasks
            /\ tasks' = Append(tasks, NewTask(t))
            /\ monitor_tasks' = DictSet(PruneDoneTasks, t, Len(tasks) + 1)
    /\ UNCHANGED <<stop_calls, clock, publish_calls, outsideMonitor>>

\* TenantMonitor.stop up to its await of the task: nothing for a tenant
\* without an entry; a task that is done is awaited without suspending and
\* its entry is popped; else the task is cancelled and the caller suspends.
StopBegin(call, t) ==
    IF t \notin DOMAIN monitor_tasks
    THEN [call |-> call, cancel |-> 0, pop |-> FALSE]
    ELSE IF TaskDone(monitor_tasks[t])
    THEN [call |-> call, cancel |-> 0, pop |-> TRUE]
    ELSE [call |-> [call EXCEPT !.tenant_id = t, !.task = monitor_tasks[t]],
          cancel |-> monitor_tasks[t], pop |-> FALSE]

\* monitor.stop(t) as called by delete_tenant.
MonitorStopBegin(c, t) ==
    LET begun == StopBegin([NoStopCall EXCEPT !.kind = "stop"], t) IN
    /\ ~ShuttingDown
    /\ stop_calls[c] = NoStopCall
    /\ stop_calls' = [stop_calls EXCEPT ![c] =
                        IF begun.cancel = 0 THEN NoStopCall ELSE begun.call]
    /\ tasks' = IF begun.cancel = 0 THEN tasks
                ELSE [tasks EXCEPT ![begun.cancel].cancel_requested = TRUE]
    /\ monitor_tasks' = IF begun.pop THEN DictPop(monitor_tasks, t) ELSE monitor_tasks
    /\ UNCHANGED <<clock, publish_calls, outsideMonitor>>

\* A cancelled task is resumed: CancelledError is raised at the await it is
\* suspended at, _run re-raises it and the task is done.
TaskCancelled(k) ==
    /\ k \in 1..Len(tasks)
    /\ tasks[k].cancel_requested
    /\ ~TaskDone(k)
    /\ tasks' = [tasks EXCEPT ![k].pc = "done"]
    /\ UNCHANGED <<monitor_tasks, stop_calls, clock, publish_calls, outsideMonitor>>

\* TenantMonitor.stop from the return of await task: the tenant's entry is
\* popped, whichever task it holds by now.  A shutdown goes on with its loop.
MonitorStopResume(c) ==
    LET call == stop_calls[c] IN
    /\ call.kind # "none"
    /\ call.task # 0
    /\ TaskDone(call.task)
    /\ monitor_tasks' = DictPop(monitor_tasks, call.tenant_id)
    /\ stop_calls' = [stop_calls EXCEPT ![c] =
                        IF call.kind = "stop" THEN NoStopCall
                        ELSE [call EXCEPT !.tenant_id = NoTenant, !.task = 0]]
    /\ UNCHANGED <<tasks, clock, publish_calls, outsideMonitor>>

\* TenantMonitor.shutdown, called by the lifespan when the server has
\* stopped serving: list(self._tasks.keys()) is taken.
MonitorShutdown(c) ==
    /\ \A x \in Callers : stop_calls[x] = NoStopCall
    /\ stop_calls' = [stop_calls EXCEPT ![c] =
          [NoStopCall EXCEPT !.kind = "shutdown",
                             !.rest = SelectSeq(<<"ta", "tb">>,
                                                LAMBDA t : t \in DOMAIN monitor_tasks)]]
    /\ UNCHANGED <<monitor_tasks, tasks, clock, publish_calls, outsideMonitor>>

\* One round of shutdown's loop: await self.stop(tenant_id).
ShutdownNext(c) ==
    LET call == stop_calls[c]
        t == Head(call.rest)
        begun == StopBegin([call EXCEPT !.rest = Tail(call.rest)], t) IN
    /\ call.kind = "shutdown"
    /\ call.task = 0
    /\ call.rest # <<>>
    /\ stop_calls' = [stop_calls EXCEPT ![c] = begun.call]
    /\ tasks' = IF begun.cancel = 0 THEN tasks
                ELSE [tasks EXCEPT ![begun.cancel].cancel_requested = TRUE]
    /\ monitor_tasks' = IF begun.pop THEN DictPop(monitor_tasks, t) ELSE monitor_tasks
    /\ UNCHANGED <<clock, publish_calls, outsideMonitor>>

\* What _container_running returns: True, False, or None when is_running
\* raised.
RunningResults == {"running", "not_running", "unknown"}

\* One publisher.publish call of task k, with the clock reading it was made
\* at.
Publication(k, type, payload) ==
    [tenant_id |-> tasks[k].tenant_id, type |-> type, payload |-> payload, task |-> k,
     at |-> clock]

\* The variant that doubles without a cap.
NextBackoffUncapped(b) == b * 2
\* min(backoff_seconds * 2.0, self.MAX_BACKOFF_SECONDS)
NextBackoff(b) == IF b * 2 < MAX_BACKOFF_SECONDS THEN b * 2 ELSE MAX_BACKOFF_SECONDS

\* The variant without grace windows.
GraceNever(task, transient) == FALSE
\* suppress_for_startup or suppress_for_reconnect
InGrace(task, transient) ==
    \/ transient /\ ~task.connected_once /\ clock < task.startup_grace_until
    \/ /\ transient
       /\ task.connected_once
       /\ task.last_connected_at # <<>>
       /\ clock < task.last_connected_at[1] + RECONNECT_GRACE_SECONDS

\* The variant that retries whatever the container does.
SupervisorNeverReturns(task, transient, running) == FALSE
\* The condition of _run's return: a transient error, the container not
\* running, no grace window.
SupervisorReturns(task, transient, running) ==
    LET container_running == IF transient THEN running ELSE "unknown" IN
    transient /\ container_running = "not_running" /\ ~InGrace(task, transient)

\* The except Exception branch of _run for task k: return, or log, or
\* publish runtime.error when the cooldown allows, then sleep.
MonitorError(k, transient, running) ==
    LET task == tasks[k]
        returns == SupervisorReturns(task, transient, running)
        emits == /\ ~returns
                 /\ ~InGrace(task, transient)
                 /\ clock >= task.next_runtime_error_at IN
    /\ emits => Len(publish_calls) < MaxPublished
    /\ clock + task.backoff_seconds <= MaxClock
    /\ tasks' = [tasks EXCEPT ![k] =
          IF returns THEN [task EXCEPT !.pc = "done"]
          ELSE [task EXCEPT !.pc = "sleep",
                            !.failures = @ + 1,
                            !.wake_at = clock + task.backoff_seconds,
                            !.next_runtime_error_at =
                                IF emits THEN clock + RUNTIME_ERROR_COOLDOWN_SECONDS ELSE @]]
    /\ publish_calls' = IF emits
                        THEN Append(publish_calls,
                                    Publication(k, "runtime.error",
                                                [message |-> "bridge_monitor_error",
                                                 retry_in_seconds |-> task.backoff_seconds]))
                        ELSE publish_calls

\* The results of websockets.connect: a connection, an OSError or
\* ConnectionClosed or InvalidStatus, or another exception.
ConnectOutcomes == {"ok", "transient", "other"}

\* One round of _run's loop up to its next await: websockets.connect returns
\* and runtime.status{pending_pairing} is published, or it raises.
TaskConnect(k, outcome, running) ==
    /\ k \in 1..Len(tasks)
    /\ tasks[k].pc = "connect"
    /\ ~tasks[k].cancel_requested
    /\ IF outcome = "ok"
       THEN /\ Len(publish_calls) < MaxPublished
            /\ tasks' = [tasks EXCEPT ![k].pc = "connected",
                                      ![k].connected_once = TRUE,
                                      ![k].last_connected_at = <<clock>>,
                                      ![k].failures = 0,
                                      ![k].backoff_seconds = 1]
            /\ publish_calls' = Append(publish_calls,
                                       Publication(k, "runtime.status",
                                                   [state |-> "pending_pairing"]))
       ELSE MonitorError(k, outcome = "transient", running)
    /\ UNCHANGED <<monitor_tasks, stop_calls, clock, outsideMonitor>>

\* The connection breaks while the task iterates over the socket.
TaskConnectionLost(k, outcome, running) ==
    /\ k \in 1..Len(tasks)
    /\ tasks[k].pc = "connected"
    /\ ~tasks[k].cancel_requested
    /\ outcome # "ok"
    /\ MonitorError(k, outcome = "transient", running)
    /\ UNCHANGED <<monitor_tasks, stop_calls, clock, outsideMonitor>>

\* The bridge closes the connection cleanly: async for ends, the context
\* manager exits and the loop starts its next round.
TaskStreamEnd(k) ==
    /\ k \in 1..Len(tasks)
    /\ tasks[k].pc = "connected"
    /\ ~tasks[k].cancel_requested
    /\ tasks' = [tasks EXCEPT ![k].pc = "connect"]
    /\ UNCHANGED <<monitor_tasks, stop_calls, clock, publish_calls, outsideMonitor>>

\* asyncio.sleep(backoff_seconds) returns, not before wake_at; the backoff
\* is raised for the next failure.
TaskWake(k) ==
    /\ k \in 1..Len(tasks)
    /\ tasks[k].pc = "sleep"
    /\ ~tasks[k].cancel_requested
    /\ clock' = IF clock < tasks[k].wake_at THEN tasks[k].wake_at ELSE clock
    /\ tasks' = [tasks EXCEPT ![k].pc = "connect",
                              ![k].backoff_seconds = NextBackoff(@)]
    /\ UNCHANGED <<monitor_tasks, stop_calls, publish_calls, outsideMonitor>>

\* d seconds pass while a task waits for its connection attempt or for the
\* next frame.
Tick(d) ==
    /\ \E k \in 1..Len(tasks) : tasks[k].pc \in {"connect", "connected"}
    /\ clock + d <= MaxClock
    /\ clock' = clock + d
    /\ UNCHANGED <<monitor_tasks, tasks, stop_calls, publish_calls, outsideMonitor>>

\* Event names as the bridge writes them, as sequences of words and
\* separators (<<>>: the key is absent or empty).
RawNames ==
    { <<"bridge", ".", "qr">>, <<"whatsapp", ".", "qr">>, <<"bridge", ".", "qrcode">>,
      <<"BRIDGE", ":", "QR", "_", "code">>, <<"bridge", ".", "connected">>,
      <<" ", "BRIDGE", ":", "CONNECTED", " ">>, <<"bridge", "_", "disconnected">>,
      <<"bridge", ".", "inbound", "_", "message">>,
      <<"bridge", ".", "delivery", "_", "receipt">>, <<"bridge", ".", "error">>,
      <<"bridge", ".", "ready">>, <<"bridge", ".", "ready", "_", "state">>,
      <<"bridge", ".", "pong">>, <<"bridge", ".", "qr", ".", "expired">>,
      <<"bridge", ".", "inbound_message">> }

\* The frames a bridge sends: text that is not JSON, or a JSON object with
\* the keys event, type, name, payload, data and qr (EmptyDict: the key is
\* absent, not a dict, or {}).
Frames ==
    {[json |-> FALSE, object |-> FALSE, event |-> <<>>, type |-> <<>>, name |-> <<>>,
      payload |-> EmptyDict, data |-> EmptyDict, qr |-> ""]}
    \cup [json : {TRUE}, object : {TRUE}, event : RawNames \cup {<<>>}, type : {<<>>, <<"whatsapp", ".", "qr">>},
          name : {<<>>, <<"bridge", ".", "ready">>},
          payload : {EmptyDict, [qr |-> "x"], [id |-> "m1"]},
          data : {EmptyDict, [qr |-> "y"]}, qr : {"", "z"}]

\* _normalized_event: event or type or name; strip (blanks stand at the ends
\* only), lower, ':' and '_' replaced by '.', then the aliases.
NormalizedEvent(envelope) ==
    LET raw_event == IF envelope.event # <<>> THEN envelope.event
                     ELSE IF envelope.type # <<>> THEN envelope.type
                     ELSE envelope.name
        Lower(w) == CASE w = "BRIDGE" -> "bridge" [] w = "QR" -> "qr"
                      [] w = "CONNECTED" -> "connected" [] OTHER -> w
        stripped == SelectSeq(raw_event, LAMBDA w : w # " ")
        token == [i \in 1..Len(stripped) |->
                    IF stripped[i] \in {":", "_"} THEN "." ELSE Lower(stripped[i])] IN
    CASE token \in {<<"whatsapp", ".", "qr">>, <<"bridge", ".", "qrcode">>,
                    <<"bridge", ".", "qr", ".", "code">>} -> <<"bridge", ".", "qr">>
      [] token = <<"bridge", ".", "ready", ".", "state">> -> <<"bridge", ".", "ready">>
      [] token = <<"bridge", ".", "inbound", ".", "message">> -> <<"bridge", ".", "inbound_message">>
      [] token = <<"bridge", ".", "delivery", ".", "receipt">> -> <<"bridge", ".", "delivery_receipt">>
      [] OTHER -> token

\* _handle_message: the publish calls it makes for a frame, in order.
HandleMessage(frame) ==
    LET event == NormalizedEvent(frame)
        payload == IF frame.payload # EmptyDict THEN frame.payload ELSE frame.data
        extracted == IF frame.qr # "" THEN [qr |-> frame.qr] ELSE EmptyDict
        qr_payload == IF payload # EmptyDict THEN payload ELSE extracted
        Call(type, p) == [type |-> type, payload |-> p] IN
    IF ~frame.json THEN <<Call("runtime.log", [raw |-> "raw"])>>
    ELSE CASE event = <<"bridge", ".", "qr">> -> <<Call("whatsapp.qr", qr_payload)>>
           [] event = <<"bridge", ".", "connected">> ->
                <<Call("whatsapp.connected", payload), Call("runtime.status", [state |-> "running"])>>
           [] event = <<"bridge", ".", "disconnected">> ->
                <<Call("whatsapp.disconnected", payload),
                  Call("runtime.status", [state |-> "pending_pairing"])>>
           [] event \in {<<"bridge", ".", "inbound_message">>, <<"bridge", ".", "delivery_receipt">>} ->
                <<Call("whatsapp.connected", [source_event |-> event]),
                  Call("runtime.status", [state |-> "running"])>>
           [] event = <<"bridge", ".", "error">> -> <<Call("runtime.error", payload)>>
           [] event = <<"bridge", ".", "ready">> ->
                <<Call("runtime.status", [state |-> "pending_pairing"])>>
           [] OTHER ->
                IF /\ \E i \in 1..Len(event) : event[i] \in {"qr", "qrcode"}
                   /\ qr_payload # EmptyDict
                THEN <<Call("whatsapp.qr", qr_payload)>>
                ELSE <<Call("runtime.log", [bridge_event |-> event, payload |-> payload])>>

\* A frame that is valid JSON and not an object, such as [1], "x", 1 or
\* null.
NonObjectFrame ==
    [json |-> TRUE, object |-> FALSE, event |-> <<>>, type |-> <<>>, name |-> <<>>,
     payload |-> EmptyDict, data |-> EmptyDict, qr |-> ""]

\* _handle_message raises: json.loads returned a list, str, number or None,
\* and envelope.get of _normalized_event raises AttributeError.
HandleMessageRaises(frame) == frame.json /\ ~frame.object

\* async for raw in ws: one frame is received and handled; an exception of
\* the handler leaves the connection and reaches the except branch of _run
\* as an error that is not transient.
TaskReceive(k, frame) ==
    LET calls == HandleMessage(frame) IN
    /\ k \in 1..Len(tasks)
    /\ tasks[k].pc = "connected"
    /\ ~tasks[k].cancel_requested
    /\ IF HandleMessageRaises(frame)
       THEN MonitorError(k, FALSE, "unknown")
       ELSE /\ Len(publish_calls) + Len(calls) <= MaxPublished
            /\ publish_calls' = publish_calls \o
                  [i \in 1..Len(calls) |-> Publication(k, calls[i].type, calls[i].payload)]
            /\ UNCHANGED tasks
    /\ UNCHANGED <<monitor_tasks, stop_calls, clock, outsideMonitor>>

\* TenantMonitor._tasks and the tasks after an endpoint ran: provision,
\* start, restart, pair_start, apply_config and whatsapp_disconnect await
\* monitor.start after their compose step; stop and health call nothing of
\* the monitor; no endpoint awaits monitor.stop.
MonitorAfter(kind, t, outcome) ==
    IF RunnerResult(kind, t, outcome) # "ok" \/ kind \in {"stop", "health"}
    THEN [registry |-> monitor_tasks, tasks |-> tasks]
    ELSE IF t \in DOMAIN PruneDoneTasks
    THEN [registry |-> PruneDoneTasks, tasks |-> tasks]
    ELSE [registry |-> DictSet(PruneDoneTasks, t, Len(tasks) + 1),
          tasks |-> Append(tasks, NewTask(t))]

\* An endpoint of the Runner called with a valid token of its tenant and
\* action, with what it does to the bridge monitor: the runtime manager's
\* steps, monitor.start, then the publish.
RunnerEndpointCall(t, endpoint, payload, outcome) ==
    LET authorization == BearerToken(TRUE, t, endpoint)
        published == RunnerPublished([action |-> endpoint, tenant |-> t, rid |-> 0], outcome)
        after == MonitorAfter(endpoint, t, outcome) IN
    /\ ~ShuttingDown
    /\ Len(after.tasks) <= MaxTasks
    /\ runner_files' = RunnerFilesAfter(endpoint, t, payload, outcome)
    /\ containers' = ContainersAfter(endpoint, t, outcome)
    /\ monitor_tasks' = after.registry
    /\ tasks' = after.tasks
    /\ bus_queue' = IF published = <<>> THEN bus_queue
                    ELSE BusDeliver(bus_queue, published[1])
    /\ Len(bus_queue') <= MaxBusQueue
    /\ runner_response' = [tenant |-> t, action |-> endpoint, auth |-> authorization,
                           status |-> RunnerStatus(endpoint, t, outcome),
                           error |-> RunnerCode(endpoint, t, outcome),
                           published |-> published]
    /\ UNCHANGED <<dbVars, nexus_image, requests, last_response, next_rid, emit_count,
                   cp_redis, consumer, bus_up, wsVars, stop_calls, clock, publish_calls,
                   publisherVars>>

\* await asyncio.sleep(30) of _reconcile_loop
RECONCILE_SLEEP_SECONDS == 30

\* sorted(tenant_ids) of a reconcile cycle, over the ids of the model.
ReconcileOrder == <<"ta", "tb">>

\* The tenant directory and the container of t are removed from outside the
\* Runner (docker compose down and rm -r by an operator, a lost volume):
\* iterdir and docker ps of the next cycle do not list t any more.
TenantRemovedOutside(t) ==
    /\ t \in DOMAIN runner_files
    /\ runner_files' = DictPop(runner_files, t)
    /\ containers' = DictPop(containers, t)
    /\ UNCHANGED <<dbVars, nexus_image, requests, last_response, next_rid, emit_count,
                   cp_redis, consumer, bus_up, bus_queue, wsVars, runner_response,
                   monitorVars, publisherVars>>

\* The for loop of one cycle from position i on; st holds _tasks, the tasks
\* and the bus so far.  A tenant that is neither a directory nor running is
\* not in tenant_ids and is skipped; a running one gets monitor.start and
\* runtime.status{running}, another one runtime.status{paused}.
RECURSIVE ReconcileFrom(_, _)
ReconcileFrom(i, st) ==
    IF i > Len(ReconcileOrder) THEN st
    ELSE LET t == ReconcileOrder[i]
             running == t \in DOMAIN containers /\ containers[t]
             live == [x \in {y \in DOMAIN st.registry : st.tasks[st.registry[y]].pc # "done"}
                        |-> st.registry[x]]
             published == Envelope(t, "runtime.status",
                                   IF running THEN "running" ELSE "paused", "", 0, 0)
             bus == IF bus_up THEN BusDeliver(st.bus, published) ELSE st.bus IN
         IF t \notin DOMAIN runner_files /\ ~running THEN ReconcileFrom(i + 1, st)
         ELSE IF ~running
         THEN ReconcileFrom(i + 1, [st EXCEPT !.bus = bus])
         ELSE IF t \in DOMAIN live
         THEN ReconcileFrom(i + 1, [st EXCEPT !.registry = live, !.bus = bus])
         ELSE ReconcileFrom(i + 1, [registry |-> DictSet(live, t, Len(st.tasks) + 1),
                                    tasks |-> Append(st.tasks, NewTask(t)),
                                    bus |-> bus])

\* One round of _reconcile_loop: the for loop, during which no other
\* coroutine runs, and the sleep of 30 s after it.  No step of it calls
\* monitor.stop.
ReconcileCycle ==
    LET after == ReconcileFrom(1, [registry |-> monitor_tasks, tasks |-> tasks,
                                   bus |-> bus_queue]) IN
    /\ ~ShuttingDown
    /\ Len(after.tasks) <= MaxTasks
    /\ Len(after.bus) <= MaxBusQueue
    /\ clock + RECONCILE_SLEEP_SECONDS <= MaxClock
    /\ monitor_tasks' = after.registry
    /\ tasks' = after.tasks
    /\ bus_queue' = after.bus
    /\ clock' = clock + RECONCILE_SLEEP_SECONDS
    /\ UNCHANGED <<dbVars, nexus_image, requests, last_response, next_rid, emit_count,
                   cp_redis, consumer, bus_up, wsVars, runner_files, containers,
                   runner_response, stop_calls, publish_calls, publisherVars>>

\* What connecting (from_url and ping) and what a publish on a client do.
AttemptOutcomes == {"ok", "failed"}

\* No publish call made yet.
NoPublish ==
    [tenant_id |-> NoTenant, type |-> "", client |-> FALSE, connects |-> <<>>,
     publishes |-> <<>>, attempts |-> <<>>, connected |-> 0, delivered |-> 0,
     raised |-> FALSE]

\* The variant that retries as long as it can reconnect.
PublishRunRetrying(client, connects, publishes) ==
    LET RECURSIVE Try(_, _, _, _)
        Try(has_client, ci, pi, attempts) ==
            IF pi > Len(publishes) THEN
                [attempts |-> attempts, connected |-> ci - 1, delivered |-> 0,
                 client |-> has_client, raised |-> FALSE]
            ELSE IF ~has_client /\ (ci > Len(connects) \/ connects[ci] # "ok") THEN
                [attempts |-> attempts, connected |-> IF ci > Len(connects) THEN ci - 1 ELSE ci,
                 delivered |-> 0, client |-> FALSE, raised |-> FALSE]
            ELSE IF publishes[pi] = "ok" THEN
                [attempts |-> Append(attempts, "ok"),
                 connected |-> IF has_client THEN ci - 1 ELSE ci, delivered |-> 1,
                 client |-> TRUE, raised |-> FALSE]
            ELSE Try(FALSE, IF has_client THEN ci ELSE ci + 1, pi + 1,
                     Append(attempts, "failed")) IN
    Try(client, 1, 1, <<>>)

\* EventPublisher.publish with _redis set or not (client), the outcomes of
\* the connection attempts it may make and of the publish calls it may make,
\* each in order: the publish attempts made, the number of connection
\* attempts, the number of deliveries to the channel, _redis afterwards, and
\* whether an exception left the method.
PublishRun(client, connects, publishes) ==
    LET first_connected == client \/ connects[1] = "ok"
        used == IF client THEN 0 ELSE 1 IN
    IF ~first_connected
    THEN [attempts |-> <<>>, connected |-> 1, delivered |-> 0, client |-> FALSE,
          raised |-> FALSE]
    ELSE IF publishes[1] = "ok"
    THEN [attempts |-> <<"ok">>, connected |-> used, delivered |-> 1, client |-> TRUE,
          raised |-> FALSE]
    ELSE IF connects[used + 1] # "ok"
    THEN [attempts |-> <<"failed">>, connected |-> used + 1, delivered |-> 0,
          client |-> FALSE, raised |-> FALSE]
    ELSE IF publishes[2] = "ok"
    THEN [attempts |-> <<"failed", "ok">>, connected |-> used + 1, delivered |-> 1,
          client |-> TRUE, raised |-> FALSE]
    ELSE [attempts |-> <<"failed", "failed">>, connected |-> used + 1, delivered |-> 0,
          client |-> FALSE, raised |-> FALSE]

\* A coroutine of the Runner awaits publisher.publish(tenant_id, type, ...).
PublisherPublish(t, type, connects, publishes) ==
    LET run == PublishRun(publisher_redis, connects, publishes) IN
    /\ publisher_redis' = run.client
    /\ last_publish' = [tenant_id |-> t, type |-> type, client |-> publisher_redis,
                        connects |-> connects, publishes |-> publishes,
                        attempts |-> run.attempts, connected |-> run.connected,
                        delivered |-> run.delivered, raised |-> run.raised]
    /\ bus_queue' = IF run.delivered = 1
                    THEN BusDeliver(bus_queue, Envelope(t, type, "", "", 0, 0))
                    ELSE bus_queue
    /\ Len(bus_queue') <= MaxBusQueue
    /\ UNCHANGED <<dbVars, nexus_image, requests, last_response, next_rid, emit_count,
                   cp_redis, consumer, bus_up, wsVars, runner_files, containers,
                   runner_response, monitorVars>>

\* The client takes the response of its request off the connection.
ResponseRead ==
    /\ last_response # NoResponse
    /\ last_response' = NoResponse
    /\ UNCHANGED <<dbVars, requests, next_rid, processVars>>

InitEmpty ==
    /\ tenants = {}
    /\ tenant_runtime = EmptyDict
    /\ tenant_secrets = EmptyDict
    /\ config_revisions = {}
    /\ prompt_revisions = {}
    /\ skill_revisions = {}
    /\ runtime_events = <<>>
    /\ requests = [s \in Slots |-> NoRequest]
    /\ last_response = NoResponse
    /\ next_rid = 1
    /\ emit_count = 0
    /\ cp_redis = "none"
    /\ consumer = "backoff"
    /\ connections = EmptyDict
    /\ ws_frames = [w \in Sockets |-> <<>>]
    /\ ws_broken = {}
    /\ ws_conn = [w \in Sockets |-> NoConn]
    /\ containers = EmptyDict
    /\ runner_response = NoRunnerResponse
    /\ bus_queue = <<>>
    /\ runner_files = EmptyDict
    /\ monitor_tasks = EmptyDict
    /\ tasks = <<>>
    /\ stop_calls = [c \in Callers |-> NoStopCall]
    /\ clock = 0
    /\ publish_calls = <<>>
    /\ publisher_redis = FALSE
    /\ last_publish = NoPublish

(***************************************************************************)
(* SpecRev: one owner sets up once and then calls the revision-writing     *)
(* handlers, overlapping, with the Runner answering, failing, rejecting or *)
(* losing its reply.  The bus is up with no consumer subscribed (publishes *)
(* reach nobody).                                                          *)
(***************************************************************************)
KeyConfig == [NEXUS_OPENROUTER_API_KEY |-> "sk-x"]
FixedIds == [i \in 1..SetupAttempts |-> "ta"]

InitRev ==
    /\ InitEmpty
    /\ nexus_image = GoodImage
    /\ bus_up = TRUE

NextRev ==
    \/ ResponseRead
    \/ tenants = {} /\ SetupTenant(1, KeyConfig, FixedIds)
    \/ \E s \in Slots : SetupResume(s)
    \/ \E n \in PromptNames, c \in PutContents :
          next_rid <= MaxRevRequests /\ PutPromptBegin(1, "ta", n, c)
    \/ \E s \in Slots : PutPromptResume(s)
    \/ \E k \in SkillIds : next_rid <= MaxRevRequests /\ PutSkillBegin(1, "ta", k, "custom")
    \/ \E s \in Slots : PutSkillResume(s)
    \/ next_rid <= MaxRevRequests /\ BootstrapBegin(1, "ta")
    \/ \E s \in Slots : BootstrapResume(s)
    \/ \E v \in PatchValues : NoRequestInFlight /\ PatchConfig(1, "ta", v)
    \/ \E s \in Slots, o \in RunnerOutcomes \ {"unreachable"} : RunnerReply(s, o)
    \/ \E s \in Slots : EmitNext(s)

SpecRev == InitRev /\ [][NextRev]_vars

(***************************************************************************)
(* SpecSetup: two users call setup, concurrently, with any body, any       *)
(* NEXUS_IMAGE setting and token_hex draws that may collide; the Runner's  *)
(* provision ends in any way.  Events are persisted in-process.            *)
(***************************************************************************)
\* Draws of token_hex over the attempts of one setup call.
TokenHexDraws == {[i \in 1..SetupAttempts |-> "ta"], [i \in 1..SetupAttempts |-> "tb"],
                  [i \in 1..SetupAttempts |-> IF i < SetupAttempts THEN "ta" ELSE "tb"]}

InitSetup ==
    /\ InitEmpty
    /\ nexus_image \in Images
    /\ bus_up = FALSE

NextSetup ==
    \/ ResponseRead
    \/ \E u \in Users, cfg \in InitialConfigs, ids \in TokenHexDraws : SetupTenant(u, cfg, ids)
    \/ \E s \in Slots : SetupResume(s)
    \/ \E image \in Images : RestartControlPlane(image)
    \/ \E s \in Slots, o \in RunnerOutcomes : RunnerReply(s, o)
    \/ \E s \in Slots : EmitNext(s)

SpecSetup == InitSetup /\ [][NextSetup]_vars

(***************************************************************************)
(* SpecTenant: user 1 sets up tenant "ta" and runs the runtime operations, *)
(* one request at a time; user 2, who owns nothing, calls every            *)
(* tenant-scoped endpoint on it; a redeployment changes NEXUS_IMAGE.       *)
(* The bus is up with no consumer subscribed.                              *)
(***************************************************************************)
InitTenant ==
    /\ InitEmpty
    /\ nexus_image \in Images
    /\ bus_up = TRUE

NextTenant ==
    \/ ResponseRead
    \/ \E cfg \in InitialConfigs : SetupTenant(1, cfg, [i \in 1..SetupAttempts |-> "ta"])
    \/ \E s \in Slots : SetupResume(s)
    \/ \E k \in RuntimeOps, t \in TokenHexIds :
          (\A s \in Slots : requests[s].kind = "none") /\ RuntimeOpBegin(k, 1, t)
    \/ \E k \in RuntimeOps : RuntimeOpBegin(k, 2, "ta")
    \/ \E s \in Slots : RuntimeOpResume(s)
    \/ PutPromptBegin(2, "ta", "SOUL", "# Soul")
    \/ PutSkillBegin(2, "ta", "google_workspace", "custom")
    \/ BootstrapBegin(2, "ta")
    \/ \E v \in PatchValues : PatchConfig(2, "ta", v)
    \/ GetStatusBegin(2, "ta")
    \/ \E k \in ReadKinds : ReadEndpoint(k, 2, "ta")
    \/ \E c \in BOOLEAN, o \in Origins : GoogleConnectStart(2, "ta", c, o)
    \/ GoogleDisconnect(2, "ta")
    \/ \E image \in Images : RestartControlPlane(image)
    \/ \E s \in Slots, o \in {"ok", "failed"} : RunnerReply(s, o)
    \/ \E s \in Slots : EmitNext(s)

SpecTenant == InitTenant /\ [][NextTenant]_vars

(***************************************************************************)
(* SpecEv: user 1 sets up tenant "ta" and disconnects WhatsApp, one        *)
(* request at a time, while the bus comes and goes and the consumer        *)
(* subscribes and fails; one client listens.                               *)
(***************************************************************************)
InitEv ==
    /\ InitEmpty
    /\ nexus_image = GoodImage
    /\ bus_up \in BOOLEAN

NextEv ==
    \/ ResponseRead
    \/ SetupTenant(1, KeyConfig, FixedIds)
    \/ \E s \in Slots : SetupResume(s)
    \/ (\A s \in Slots : requests[s].kind = "none") /\ RuntimeOpBegin("whatsapp_disconnect", 1, "ta")
    \/ \E s \in Slots : RuntimeOpResume(s)
    \/ \E s \in Slots : RunnerReply(s, "ok")
    \/ \E s \in Slots : EmitNext(s)
    \/ BusDown
    \/ BusUp
    \/ ConsumerSubscribe
    \/ ConsumerFail
    \/ ConsumeMessage
    \/ WsConnect("w1", 1, "ta", NoParam, NoParam)

SpecEv == InitEv /\ [][NextEv]_vars

(***************************************************************************)
(* SpecWs: clients open and lose WebSockets with and without a valid token *)
(* and with either tenant_id parameter while user 1 sets up tenant "ta"    *)
(* and starts it; the bus is down, events take the in-process path.        *)
(***************************************************************************)
InitWs ==
    /\ InitEmpty
    /\ nexus_image = GoodImage
    /\ bus_up = FALSE

NextWs ==
    \/ ResponseRead
    \/ SetupTenant(1, KeyConfig, FixedIds)
    \/ \E s \in Slots : SetupResume(s)
    \/ (\A s \in Slots : requests[s].kind = "none") /\ RuntimeOpBegin("start", 1, "ta")
    \/ \E s \in Slots : RuntimeOpResume(s)
    \/ \E s \in Slots, o \in {"ok", "failed"} : RunnerReply(s, o)
    \/ \E s \in Slots : EmitNext(s)
    \/ \E w \in Sockets, u \in {0, 1}, tp \in TokenHexIds :
          WsConnect(w, u, tp, NoParam, NoParam)
    \/ \E w \in Sockets : WsPeerGone(w)
    \/ \E w \in Sockets : WsUnregister(w)

SpecWs == InitWs /\ [][NextWs]_vars

(***************************************************************************)
(* SpecProj: user 1 sets up tenant "ta", starts it, disconnects WhatsApp   *)
(* and reads the status, one request at a time; the consumer subscribes at *)
(* some moment and consumes; the Runner's reconcile loop publishes.        *)
(***************************************************************************)
InitProj ==
    /\ InitEmpty
    /\ nexus_image = GoodImage
    /\ bus_up = TRUE

NextProj ==
    \/ ResponseRead
    \/ tenants = {} /\ SetupTenant(1, KeyConfig, FixedIds)
    \/ \E s \in Slots : SetupResume(s)
    \/ \E k \in {"start", "whatsapp_disconnect"} :
          NoRequestInFlight /\ RuntimeOpBegin(k, 1, "ta")
    \/ \E s \in Slots : RuntimeOpResume(s)
    \/ NoRequestInFlight /\ GetStatusBegin(1, "ta")
    \/ \E s \in Slots : GetStatusResume(s)
    \/ \E s \in Slots : RunnerReply(s, "ok")
    \/ \E s \in Slots : EmitNext(s)
    \/ ConsumerSubscribe
    \/ ConsumeMessage
    \/ ReconcilePublish("ta")

SpecProj == InitProj /\ [][NextProj]_vars

(***************************************************************************)
(* SpecBus: user 1 sets up tenant "ta"; runtime.status envelopes with any  *)
(* state and source then arrive on the channel and are consumed.           *)
(***************************************************************************)
InitBus ==
    /\ InitEmpty
    /\ nexus_image = GoodImage
    /\ bus_up = TRUE

NextBus ==
    \/ ResponseRead
    \/ tenants = {} /\ SetupTenant(1, KeyConfig, FixedIds)
    \/ \E s \in Slots : SetupResume(s)
    \/ \E s \in Slots, o \in {"ok", "failed"} : RunnerReply(s, o)
    \/ \E s \in Slots : EmitNext(s)
    \/ ConsumerSubscribe
    \/ ConsumeMessage
    \/ \E st \in ChannelStates, src \in ChannelSources :
          TenantExists("ta") /\ BusPublish(ChannelEnvelope("ta", st, src))

SpecBus == InitBus /\ [][NextBus]_vars

(***************************************************************************)
(* SpecBoot: user 1 sets up tenant "ta", overwrites the SOUL prompt and    *)
(* calls the assistant bootstrap, overlapping, with the Runner answering   *)
(* or failing.  The bus is up with no consumer subscribed.                 *)
(***************************************************************************)
InitBoot ==
    /\ InitEmpty
    /\ nexus_image = GoodImage
    /\ bus_up = TRUE

NextBoot ==
    \/ ResponseRead
    \/ tenants = {} /\ SetupTenant(1, KeyConfig, FixedIds)
    \/ \E s \in Slots : SetupResume(s)
    \/ \E c \in PutContents : PutPromptBegin(1, "ta", "SOUL", c)
    \/ \E s \in Slots : PutPromptResume(s)
    \/ BootstrapBegin(1, "ta")
    \/ \E s \in Slots : BootstrapResume(s)
    \/ \E s \in Slots, o \in {"ok", "failed"} : RunnerReply(s, o)
    \/ \E s \in Slots : EmitNext(s)

SpecBoot == InitBoot /\ [][NextBoot]_vars

(***************************************************************************)
(* SpecRunner: callers on the internal network post to the Runner's        *)
(* endpoints for either tenant with every kind of Authorization header.    *)
(***************************************************************************)
RunnerEndpoints == {"provision", "start", "stop", "apply_config"}
AuthHeaders ==
    {NoAuthorization, BasicAuthorization, BearerToken(FALSE, "ta", "start")}
    \cup {BearerToken(TRUE, t, a) : t \in TokenHexIds, a \in RunnerEndpoints}
DirectPayloads ==
    {[env |-> KeyConfig, prompts |-> PROMPT_DEFAULTS, skills |-> SKILL_DEFAULTS, secret |-> "s"]}

InitRunner ==
    /\ InitEmpty
    /\ nexus_image = GoodImage
    /\ bus_up = TRUE

NextRunner ==
    \E t \in TokenHexIds, e \in RunnerEndpoints, a \in AuthHeaders, p \in DirectPayloads,
       o \in {"ok", "failed"} : RunnerCall(t, e, a, p, o)

SpecRunner == InitRunner /\ [][NextRunner]_vars

(***************************************************************************)
(* Properties of the revision tables.                                      *)
(***************************************************************************)

\* C1: in every reachable state a tenant has at most one active
\* ConfigRevision, at most one active PromptRevision per prompt name and at
\* most one active SkillRevision per skill id, whatever the interleaving of
\* setup, config PATCH, prompt PUT, skill PUT, bootstrap and Runner outcomes.
C1_AtMostOneActiveRevision ==
    \A t \in TokenHexIds :
        /\ Cardinality(ActiveConfig(t)) <= 1
        /\ \A n \in PromptNames : Cardinality({p \in ActivePrompts(t) : p.name = n}) <= 1
        /\ \A k \in SkillIds : Cardinality({x \in ActiveSkills(t) : x.skill_id = k}) <= 1

\* A prompt and a skill each have a superseded revision 1 and an active
\* revision 2, after a second writer of a revision 2 was refused.
C1_Witness ==
    /\ \E p \in prompt_revisions, q \in prompt_revisions :
          /\ p.name = q.name /\ p.revision = 1 /\ ~p.is_active
          /\ q.revision = 2 /\ q.is_active
    /\ last_response.status = 500 /\ last_response.error = "IntegrityError"

ActiveFiles(t) ==
    [env |-> IF HasActiveConfig(t) THEN ActiveConfigRow(t).env_json ELSE EmptyDict,
     prompts |-> PromptDict(ActivePrompts(t)),
     skills |-> SkillDict(ActiveSkills(t))]

\* C3: whenever no request is in flight, the env, prompt and skill files the
\* Runner last wrote for a tenant equal the tenant's active revisions.
C3_RunnerFilesEqualActiveRevisions ==
    NoRequestInFlight =>
        \A t \in DOMAIN runner_files :
            /\ runner_files[t].env = ActiveFiles(t).env
            /\ runner_files[t].prompts = ActiveFiles(t).prompts
            /\ runner_files[t].skills = ActiveFiles(t).skills

(***************************************************************************)
(* Properties of setup, of the start gates and of tenant scoping.          *)
(***************************************************************************)
\* The steps that touch neither the database, nor a request slot, nor the
\* Runner, nor the event path.
NoEffect == UNCHANGED <<dbVars, requests, next_rid, emit_count, bus_queue, runnerVars>>

\* C6: setup is idempotent per user: there is never more than one Tenant row
\* per owner, a setup that answers 200 answers the id of the caller's row,
\* and a setup by a user who already has a row answers 200 at once with no
\* Runner call, no event and no row changed.
C6_SetupIdempotent ==
    /\ [](\A u \in Users : Cardinality({row \in tenants : row.owner_user_id = u}) <= 1)
    /\ []((last_response.kind = "setup" /\ last_response.status = 200)
            => \E row \in tenants : /\ row.owner_user_id = last_response.user
                                    /\ row.id = last_response.tenant)
    /\ [][\A u \in Users :
            (/\ \E row \in tenants : row.owner_user_id = u
             /\ last_response' # last_response
             /\ last_response'.kind = "setup" /\ last_response'.user = u
             /\ last_response'.rid = 0)
            => (last_response'.status = 200 /\ NoEffect)]_vars

\* A second setup call of a user has been answered from the existing row.
C6_Witness ==
    /\ last_response.kind = "setup" /\ last_response.rid = 0
    /\ last_response.status = 200
    /\ \E row \in tenants : row.id = last_response.tenant /\ row.status # "provisioning"

C10_NonOwnerGets404 ==
    [][/\ (/\ last_response' # last_response
           /\ last_response'.kind \notin {"none", "setup"}
           /\ ~\E row \in tenants : /\ row.id = last_response'.tenant
                                    /\ row.owner_user_id = last_response'.user)
          => (last_response'.status = 404 /\ NoEffect)
       /\ \A s \in Slots :
            (requests'[s] # requests[s] /\ requests'[s].kind \notin {"none", "setup"})
            => \E row \in tenants : /\ row.id = requests'[s].tenant
                                    /\ row.owner_user_id = requests'[s].user]_vars

\* User 2 has been answered 404 on the tenant user 1 owns.
C10_Witness ==
    /\ last_response.status = 404 /\ last_response.user = 2
    /\ \E row \in tenants : row.id = last_response.tenant /\ row.owner_user_id = 1

(***************************************************************************)
(* Properties of the event path.                                           *)
(***************************************************************************)
\* The handlers that emit on success, and the event types that match them.
EmittingKinds == {"setup", "start", "stop", "restart", "pair_start", "whatsapp_disconnect",
                  "put_prompt", "put_skill", "patch_config", "bootstrap"}
MatchingTypes(kind) ==
    CASE kind = "setup" -> {"runtime.status", "runtime.error"}
      [] kind \in {"start", "stop", "restart", "pair_start"} -> {"runtime.status"}
      [] kind = "whatsapp_disconnect" -> {"whatsapp.disconnected"}
      [] kind = "bootstrap" -> {"assistant.bootstrap.applied"}
      [] OTHER -> {"config.applied"}

\* C4: a mutating request that returned 2xx has, once none of its envelopes
\* is still on the bus, exactly one RuntimeEvent row of the matching type
\* caused by it, and every socket attached for the tenant since before the
\* request has been sent that event.
C4_ExactlyOneEventPerRequest ==
    LET r == last_response
        caused == {i \in 1..Len(runtime_events) :
                      /\ runtime_events[i].cause = r.rid
                      /\ runtime_events[i].tenant_id = r.tenant
                      /\ runtime_events[i].type \in MatchingTypes(r.kind)} IN
    (/\ r.kind \in EmittingKinds /\ r.status = 200 /\ r.rid > 0
     /\ \A i \in 1..Len(bus_queue) : bus_queue[i].cause # r.rid)
    => /\ Cardinality(caused) = 1
       /\ \A w \in Sockets :
            (/\ ws_conn[w].state = "open" /\ w \notin ws_broken
             /\ r.tenant \in DOMAIN connections /\ w \in connections[r.tenant]
             /\ ws_conn[w].since <= r.rid)
            => \E k \in 1..Len(ws_frames[w]) :
                  /\ ws_frames[w][k].cause = r.rid
                  /\ ws_frames[w][k].type \in MatchingTypes(r.kind)

\* C5: events emitted one after the other by the control plane for a tenant
\* are persisted with increasing ids and reach every socket in that order,
\* whatever happens to the bus between the emits.
C5_EmitOrderIsIdOrder ==
    /\ \A i, j \in 1..Len(runtime_events) :
          (/\ i < j
           /\ runtime_events[i].tenant_id = runtime_events[j].tenant_id
           /\ runtime_events[i].seq > 0 /\ runtime_events[j].seq > 0)
          => runtime_events[i].seq < runtime_events[j].seq
    /\ \A w \in Sockets : \A i, j \in 1..Len(ws_frames[w]) :
          (i < j /\ ws_frames[w][i].seq > 0 /\ ws_frames[w][j].seq > 0)
          => ws_frames[w][i].seq < ws_frames[w][j].seq

\* C8: a WebSocket request whose tenant_id parameter is not the tenant of the
\* token's user is closed with 1008, never registered and sent no frame.
C8_ForeignTenantParamRejected ==
    \A w \in Sockets :
       (/\ ws_conn[w].state # "idle"
        /\ ws_conn[w].user \in Users
        /\ ws_conn[w].tenant_param # NoTenant
        /\ ~\E row \in tenants : /\ row.owner_user_id = ws_conn[w].user
                                 /\ row.id = ws_conn[w].tenant_param)
       => /\ ws_conn[w].code = 1008
          /\ ws_frames[w] = <<>>
          /\ \A t \in DOMAIN connections : w \notin connections[t]

LatestEnvelope ==
    IF bus_queue # <<>> THEN bus_queue[Len(bus_queue)]
    ELSE RowToWire(runtime_events[Len(runtime_events)])

\* C11: when GET /status answers 200 and the event published last for the
\* tenant was emitted by the control plane (before the request began: one
\* request runs at a time) and is runtime.status with state s, the answer
\* has actual_state = s; if it is whatsapp.disconnected, the answer has
\* actual_state = pending_pairing.
C11_StatusYieldsEmittedState ==
    [][\A s \in Slots :
         (/\ requests[s].kind = "status"
          /\ requests'[s].kind = "none"
          /\ last_response'.status = 200
          /\ (bus_queue # <<>> \/ runtime_events # <<>>)
          /\ LatestEnvelope.tenant_id = requests[s].tenant
          /\ LatestEnvelope.seq = emit_count
          /\ LatestEnvelope.seq > 0)
         => /\ (LatestEnvelope.type = "runtime.status" /\ LatestEnvelope.payload.state # "")
                 => last_response'.actual_state = LatestEnvelope.payload.state
            /\ LatestEnvelope.type = "whatsapp.disconnected"
                 => last_response'.actual_state = "pending_pairing"]_vars

\* C12: Tenant.status and TenantRuntime.actual_state are always members of
\* the state set, and consuming a runtime.status envelope whose state is not
\* in the set changes neither the tenants nor their runtime rows.
C12_StatesStayInStateSet ==
    [][/\ \A row \in tenants' : row.status \in StateSet
       /\ \A t \in DOMAIN tenant_runtime' : tenant_runtime'[t].actual_state \in StateSet
       /\ (/\ consumer = "subscribed"
           /\ bus_queue # <<>>
           /\ runtime_events' # runtime_events
           /\ Head(bus_queue).type = "runtime.status"
           /\ Head(bus_queue).payload.state \notin StateSet)
          => UNCHANGED <<tenants, tenant_runtime>>]_vars

\* C13: consuming a runtime.status envelope with state running leaves the
\* tenant's actual_state as it was when the payload's source is reconcile,
\* and sets it to running otherwise.
C13_ReconcileRunningIgnored ==
    [][(/\ consumer = "subscribed"
        /\ bus_queue # <<>>
        /\ runtime_events' # runtime_events
        /\ Head(bus_queue).type = "runtime.status"
        /\ Head(bus_queue).payload.state = "running"
        /\ Head(bus_queue).tenant_id \in DOMAIN tenant_runtime)
       => LET t == Head(bus_queue).tenant_id IN
          IF Head(bus_queue).payload.source = "reconcile"
          THEN tenant_runtime'[t].actual_state = tenant_runtime[t].actual_state
          ELSE tenant_runtime'[t].actual_state = "running"]_vars

(***************************************************************************)
(* Runtime operations and setup: what the handler commits and emits.       *)
(***************************************************************************)
\* C14: when a runtime operation of the owner comes back from the Runner
\* with success, the handler commits desired_state = actual_state = running
\* (start, restart), paused (stop) or pending_pairing (pair_start,
\* disconnect), answers 200 and has runtime.status with that state left to
\* emit, disconnect after whatsapp.disconnected; when it comes back with a
\* RunnerError the handler leaves the runtime row alone, has exactly one
\* runtime.error left to emit and answers the Runner's status code.  Every
\* emit step performs one emit, and the response after the last one carries
\* the status decided before.
C14_RuntimeOpOutcome ==
    [][\A s \in Slots :
         LET r == requests[s]
             t == r.tenant
             st == CASE r.kind \in {"start", "restart"} -> "running"
                     [] r.kind = "stop" -> "paused"
                     [] OTHER -> "pending_pairing" IN
         /\ (r.kind \in RuntimeOps /\ r.stage = "resume" /\ requests'[s] # r)
              => IF r.runner_status = 200
                 THEN /\ tenant_runtime'[t].desired_state = st
                      /\ tenant_runtime'[t].actual_state = st
                      /\ requests'[s].stage = "emit"
                      /\ requests'[s].status = 200
                      /\ requests'[s].emits[Len(requests'[s].emits)] = <<"runtime.status", st, "">>
                      /\ IF r.kind = "whatsapp_disconnect"
                         THEN /\ Len(requests'[s].emits) = 2
                              /\ requests'[s].emits[1][1] = "whatsapp.disconnected"
                         ELSE Len(requests'[s].emits) = 1
                 ELSE /\ UNCHANGED tenant_runtime
                      /\ requests'[s].stage = "emit"
                      /\ Len(requests'[s].emits) = 1
                      /\ requests'[s].emits[1][1] = "runtime.error"
                      /\ requests'[s].status = r.runner_status
                      /\ r.runner_status >= 400
         /\ (r.kind \in RuntimeOps /\ r.stage = "emit" /\ requests'[s] # r)
              => /\ emit_count' = emit_count + 1
                 /\ IF Len(r.emits) = 1
                    THEN /\ requests'[s] = NoRequest
                         /\ last_response'.rid = r.rid
                         /\ last_response'.status = r.status
                    ELSE /\ requests'[s].emits = Tail(r.emits)
                         /\ requests'[s].status = r.status]_vars

\* A stop that failed at the Runner after a start that succeeded: the
\* handler is about to emit runtime.error and the runtime is still running.
C14_Witness ==
    \E s \in Slots :
        /\ requests[s].kind = "stop"
        /\ requests[s].stage = "emit"
        /\ requests[s].status = 502
        /\ tenant_runtime[requests[s].tenant].desired_state = "running"
        /\ tenant_runtime[requests[s].tenant].actual_state = "running"

\* C15: when the setup of a new tenant returns after a successful provision,
\* Tenant.status = pending_pairing, desired_state = running, actual_state =
\* pending_pairing and runtime.status pending_pairing has been emitted; when
\* it returns after a RunnerError, Tenant.status = actual_state = error,
\* last_error is "<code>: <message>" of the RunnerError and runtime.error has
\* been emitted.
C15_SetupOutcome ==
    [][\A s \in Slots :
         LET r == requests[s]
             t == r.tenant IN
         (/\ r.kind = "setup" /\ r.stage = "emit"
          /\ requests'[s] = NoRequest
          /\ last_response'.rid = r.rid)
         => LET row == CHOOSE x \in tenants' : x.id = t
                rt == tenant_runtime'[t] IN
            /\ emit_count' = emit_count + 1
            /\ IF r.runner_status = 200
               THEN /\ row.status = "pending_pairing"
                    /\ rt.desired_state = "running"
                    /\ rt.actual_state = "pending_pairing"
                    /\ r.emits = <<<<"runtime.status", "pending_pairing", "">>>>
               ELSE /\ row.status = "error"
                    /\ rt.actual_state = "error"
                    /\ rt.last_error = r.runner_error \o ": " \o RunnerMessage(r.runner_error)
                    /\ Len(r.emits) = 1
                    /\ r.emits[1][1] = "runtime.error"]_vars

\* C16: a GET /status issued after a successful start and then a successful
\* WhatsApp disconnect have returned answers actual_state = pending_pairing.
\* In SpecProj every Runner call succeeds and requests run one at a time, so
\* four emits and desired_state = pending_pairing mean that setup, one start
\* and then one disconnect have returned; the status request is the next
\* user operation, and no bridge event is published.
C16_DisconnectStaysPendingPairing ==
    [][\A s \in Slots :
         (/\ requests[s].kind = "status"
          /\ requests'[s].kind = "none"
          /\ emit_count = 4
          /\ requests[s].runtime.desired_state = "pending_pairing")
         => /\ last_response'.status = 200
            /\ last_response'.actual_state = "pending_pairing"]_vars

(***************************************************************************)
(* PATCH /config (SpecRev).                                                *)
(***************************************************************************)
\* The owner of tenant "ta" is user 1 and the tenant has an active config.
OwnerCanPatch ==
    /\ \E row \in tenants : row.id = "ta" /\ row.owner_user_id = 1
    /\ \E c \in config_revisions : c.tenant_id = "ta" /\ c.is_active

\* env_json of the active config of "ta".
ActiveEnv == (CHOOSE c \in config_revisions : c.tenant_id = "ta" /\ c.is_active).env_json

\* The step has parked a patch_config request at the Runner's apply_config
\* with env in its payload.
PatchApplyBegun(env) ==
    \E s \in Slots : /\ requests[s].kind = "none"
                     /\ requests'[s].kind = "patch_config"
                     /\ requests'[s].action = "apply_config"
                     /\ requests'[s].payload.env = env

\* C17: a PATCH of the owner whose merged result differs from the active env
\* C goes through: it either has, when it answers 200, exactly one active
\* config row, new, with env = C overridden by the values and revision =
\* previous maximum + 1, or it is on its way to the Runner with that env.
C17_PatchActivatesMergedRevision ==
    [][\A v \in PatchValues :
         (/\ PatchConfig(1, "ta", v)
          /\ OwnerCanPatch
          /\ DictUpdate(ActiveEnv, v) # ActiveEnv)
         => \/ PatchApplyBegun(DictUpdate(ActiveEnv, v))
            \/ /\ last_response'.status = 200
               /\ \E c \in config_revisions' \ config_revisions :
                     /\ c.tenant_id = "ta" /\ c.is_active
                     /\ c.env_json = DictUpdate(ActiveEnv, v)
                     /\ c.revision = 1 + MaxOf({x.revision : x \in {y \in config_revisions :
                                                                    y.tenant_id = "ta"}})
                     /\ \A d \in config_revisions' :
                           (d.tenant_id = "ta" /\ d.is_active) => d = c]_vars

\* C18: a PATCH of the owner whose merged result equals the active env
\* answers 200 and adds no row, calls no Runner and emits nothing.
C18_NoopPatchKeepsRevision ==
    [][\A v \in PatchValues :
         (/\ PatchConfig(1, "ta", v)
          /\ OwnerCanPatch
          /\ DictUpdate(ActiveEnv, v) = ActiveEnv)
         => /\ last_response'.status = 200
            /\ last_response'.kind = "patch_config"
            /\ NoEffect]_vars

\* C19: the same non-empty patch sent again and again: as long as fewer than
\* two config rows of the tenant hold the merged env the PATCH goes to the
\* Runner with it (a new revision each time); from then on it answers 200
\* and adds no row.
C19_PatchTwiceThenNoop ==
    [][\A v \in PatchValues \ {EmptyDict} :
         (PatchConfig(1, "ta", v) /\ OwnerCanPatch)
         => IF Cardinality({c \in config_revisions :
                              /\ c.tenant_id = "ta"
                              /\ c.env_json = DictUpdate(ActiveEnv, v)}) < 2
            THEN PatchApplyBegun(DictUpdate(ActiveEnv, v))
            ELSE /\ last_response'.status = 200
                 /\ UNCHANGED config_revisions]_vars

(***************************************************************************)
(* Assistant bootstrap (SpecBoot).                                         *)
(***************************************************************************)
\* C20: when the Runner's apply_config of a bootstrap fails, the handler and
\* the emit that follows leave the prompt and skill tables and the stored
\* assistant_defaults_version as they are; when it succeeds, the handler's
\* next step makes every proposed revision the only active row of its prompt
\* name or skill id, stores the current defaults version and has exactly one
\* assistant.bootstrap.applied left to emit.
C20_BootstrapAllOrNone ==
    [][\A s \in Slots :
         LET r == requests[s]
             t == r.tenant IN
         /\ (/\ r.kind = "bootstrap" /\ r.stage \in {"resume", "emit"}
             /\ r.runner_status # 200
             /\ requests'[s] # r)
            => /\ UNCHANGED <<prompt_revisions, skill_revisions>>
               /\ tenant_secrets'[t].assistant_defaults_version
                     = tenant_secrets[t].assistant_defaults_version
         /\ (/\ r.kind = "bootstrap" /\ r.stage = "resume"
             /\ r.runner_status = 200
             /\ requests'[s] # r)
            => /\ \A p \in r.pending :
                    \E row \in prompt_revisions' :
                       /\ row.tenant_id = t /\ row.name = p.key
                       /\ row.revision = p.revision /\ row.content = p.content
                       /\ row.is_active
                       /\ \A other \in prompt_revisions' :
                             (other.tenant_id = t /\ other.name = p.key /\ other.is_active)
                                => other = row
               /\ \A k \in r.pending_skills :
                    \E row \in skill_revisions' :
                       /\ row.tenant_id = t /\ row.skill_id = k.key
                       /\ row.revision = k.revision /\ row.content = k.content
                       /\ row.is_active
                       /\ \A other \in skill_revisions' :
                             (other.tenant_id = t /\ other.skill_id = k.key /\ other.is_active)
                                => other = row
               /\ tenant_secrets'[t].assistant_defaults_version = ASSISTANT_DEFAULTS_VERSION
               /\ requests'[s].stage = "emit"
               /\ Len(requests'[s].emits) = 1
               /\ requests'[s].emits[1][1] = "assistant.bootstrap.applied"]_vars


(***************************************************************************)
(* SpecReplay: users 1 and 2 set up tenants "ta" and "tb" and start them,  *)
(* one request at a time, the bus down so that every event is persisted    *)
(* in-process; clients subscribe with every replay and after_event_id.     *)
(***************************************************************************)
InitReplay ==
    /\ InitEmpty
    /\ nexus_image = GoodImage
    /\ bus_up = FALSE

NextReplay ==
    \/ ResponseRead
    \/ NoRequestInFlight /\ SetupTenant(1, KeyConfig, FixedIds)
    \/ NoRequestInFlight /\ SetupTenant(2, KeyConfig, [i \in 1..SetupAttempts |-> "tb"])
    \/ \E s \in Slots : SetupResume(s)
    \/ \E u \in Users, t \in TokenHexIds : NoRequestInFlight /\ RuntimeOpBegin("start", u, t)
    \/ \E s \in Slots : RuntimeOpResume(s)
    \/ \E s \in Slots : RunnerReply(s, "ok")
    \/ \E s \in Slots : EmitNext(s)
    \/ \E u \in Users, replay \in QueryParams, after \in QueryParams :
          WsConnect("w1", u, "ta", replay, after)

SpecReplay == InitReplay /\ [][NextReplay]_vars

InitOAuth ==
    /\ InitEmpty
    /\ nexus_image = GoodImage
    /\ bus_up = TRUE

NextOAuth ==
    \/ ResponseRead
    \/ tenants = {} /\ SetupTenant(1, KeyConfig, FixedIds)
    \/ \E s \in Slots : SetupResume(s)
    \/ \E s \in Slots : RunnerReply(s, "ok")
    \/ \E s \in Slots : EmitNext(s)
    \/ \E state \in OAuthStates, code \in {"", "c1"}, error \in {"", "access_denied"} :
          NoRequestInFlight /\ GoogleCallbackBegin(state, code, error)
    \/ \E s \in Slots, x \in ExchangeOutcomes : GoogleCallbackResume(s, x)

SpecOAuth == InitOAuth /\ [][NextOAuth]_vars

\* C22: once a callback has accepted a state token (here: the tenant's
\* secret holds the google_oauth a callback with the one issued token has
\* stored), a later callback presenting that token is answered at once with
\* an error: no token exchange is begun, no secret is written, no event is
\* queued.
C22_StateTokenConsumedOnce ==
    [][\A code \in {"", "c1"}, error \in {"", "access_denied"} :
         ( /\ "ta" \in DOMAIN tenant_secrets
           /\ tenant_secrets["ta"].google_oauth
           /\ GoogleCallbackBegin(IssuedState, code, error) )
         => /\ requests' = requests
            /\ tenant_secrets' = tenant_secrets
            /\ last_response'.error # ""
    ]_vars

(***************************************************************************)
(* SpecTasks: endpoints and the reconcile loop start the monitors of "ta"  *)
(* and "tb", delete_tenant stops them, the lifespan shuts down; a task     *)
(* whose connection attempt fails after its startup grace returns.         *)
(***************************************************************************)
InitTasks ==
    /\ InitEmpty
    /\ nexus_image = GoodImage
    /\ bus_up = TRUE

NextTasks ==
    \/ \E t \in TokenHexIds : MonitorStart(t)
    \/ \E c \in Callers, t \in TokenHexIds : MonitorStopBegin(c, t)
    \/ \E k \in 1..MaxTasks : TaskCancelled(k)
    \/ \E c \in Callers : MonitorStopResume(c)
    \/ \E c \in Callers : MonitorShutdown(c)
    \/ \E c \in Callers : ShutdownNext(c)
    \/ \E k \in 1..MaxTasks : TaskConnect(k, "transient", "not_running")
    \/ clock = 0 /\ Tick(STARTUP_GRACE_SECONDS)

SpecTasks == InitTasks /\ [][NextTasks]_vars

\* C23: at any time at most one monitor task is alive per tenant.
C23_AtMostOneLiveTaskPerTenant ==
    \A t \in TokenHexIds :
        Cardinality({k \in 1..Len(tasks) : tasks[k].tenant_id = t /\ ~TaskDone(k)}) <= 1

(***************************************************************************)
(* SpecMonitor: the monitor of tenant "ta" is started once; its task       *)
(* connects, loses the connection, sleeps and retries while time passes.   *)
(***************************************************************************)
InitMonitor ==
    /\ InitEmpty
    /\ nexus_image = GoodImage
    /\ bus_up = TRUE

NextMonitor ==
    \/ tasks = <<>> /\ MonitorStart("ta")
    \/ \E o \in ConnectOutcomes, r \in RunningResults :
          clock <= MaxGraceClock /\ TaskConnect(1, o, r)
    \/ \E o \in ConnectOutcomes, r \in RunningResults :
          clock <= MaxGraceClock /\ TaskConnectionLost(1, o, r)
    \/ TaskStreamEnd(1)
    \/ TaskWake(1)
    \/ \E d \in {RUNTIME_ERROR_COOLDOWN_SECONDS, RECONNECT_GRACE_SECONDS} :
          clock <= MaxGraceClock /\ Tick(d)

SpecMonitor == InitMonitor /\ [][NextMonitor]_vars

\* A transient error reaches the except branch of task 1 with is_running
\* answering r.
TransientError(r) ==
    TaskConnect(1, "transient", r) \/ TaskConnectionLost(1, "transient", r)

\* Task 1 is inside its startup grace window (less than 15 s since launch,
\* never connected) or its reconnect grace window (less than 20 s since its
\* latest connection).
InGraceWindow ==
    \/ /\ ~tasks[1].connected_once
       /\ clock - (tasks[1].startup_grace_until - STARTUP_GRACE_SECONDS) < STARTUP_GRACE_SECONDS
    \/ /\ tasks[1].last_connected_at # <<>>
       /\ clock - tasks[1].last_connected_at[1] < RECONNECT_GRACE_SECONDS

\* C24: inside a grace window a transient connection error publishes
\* nothing and does not end the supervisor, whatever is_running reports: the
\* task sleeps its backoff and will retry.
C24_GraceSuppressesTransientErrors ==
    [][\A r \in RunningResults :
         (TransientError(r) /\ InGraceWindow) =>
            /\ publish_calls' = publish_calls
            /\ tasks'[1].pc = "sleep"
            /\ tasks'[1].wake_at = clock + tasks[1].backoff_seconds
    ]_vars

\* The task sleeps after a failed first attempt inside its startup grace,
\* and nothing was published (an error that is not transient would have
\* been).
C24_Witness ==
    /\ Len(tasks) = 1
    /\ tasks[1].pc = "sleep"
    /\ ~tasks[1].connected_once
    /\ clock < tasks[1].startup_grace_until
    /\ publish_calls = <<>>

\* A runtime.error was published by the monitor less than 10 s ago.
ErrorPublishedLately ==
    \E i \in 1..Len(publish_calls) :
        /\ publish_calls[i].type = "runtime.error"
        /\ clock - publish_calls[i].at < RUNTIME_ERROR_COOLDOWN_SECONDS

\* C26: outside both grace windows a transient error with the container not
\* running ends the supervisor without a publication and for good; with the
\* container running the task publishes runtime.error, unless one was
\* published less than 10 s ago, and sleeps to retry.
C26_ReturnsWhenContainerGone ==
    [][\A r \in {"running", "not_running"} :
         (TransientError(r) /\ ~InGraceWindow) =>
            IF r = "not_running"
            THEN /\ tasks'[1].pc = "done"
                 /\ publish_calls' = publish_calls
            ELSE /\ tasks'[1].pc = "sleep"
                 /\ \/ /\ Len(publish_calls') = Len(publish_calls) + 1
                       /\ SubSeq(publish_calls', 1, Len(publish_calls)) = publish_calls
                       /\ publish_calls'[Len(publish_calls')].type = "runtime.error"
                    \/ ErrorPublishedLately /\ publish_calls' = publish_calls
    ]_vars

\* The supervisor has returned by itself, and no runtime.error was
\* published.
C26_Witness ==
    /\ Len(tasks) = 1
    /\ tasks[1].pc = "done"
    /\ ~tasks[1].cancel_requested
    /\ \A i \in 1..Len(publish_calls) : publish_calls[i].type # "runtime.error"

(***************************************************************************)
(* SpecSleep: the monitor of tenant "ta" is started once; its task       *)
(* connects, fails and sleeps; time passes in the sleeps only.             *)
(***************************************************************************)
InitSleep ==
    /\ InitEmpty
    /\ nexus_image = GoodImage
    /\ bus_up = TRUE

NextSleep ==
    \/ tasks = <<>> /\ MonitorStart("ta")
    \/ \E o \in ConnectOutcomes, r \in RunningResults : TaskConnect(1, o, r)
    \/ \E o \in ConnectOutcomes, r \in RunningResults : TaskConnectionLost(1, o, r)
    \/ TaskWake(1)

SpecSleep == InitSleep /\ [][NextSleep]_vars

\* C27: the delay slept after the n-th consecutive failed round is 1, 2, 4,
\* 8, 16, 30, 30, ... seconds, counting from 1 again after a connection.
C27_BackoffDoublesToCap ==
    [][(tasks # <<>> /\ tasks'[1].pc = "sleep" /\ tasks[1].pc # "sleep") =>
          tasks'[1].wake_at - clock =
              (IF tasks'[1].failures >= 6 THEN 30
               ELSE <<1, 2, 4, 8, 16>>[tasks'[1].failures])
    ]_vars

\* The seventh failure in a row: the task sleeps 30 s for the second time.
C27_Witness ==
    /\ Len(tasks) = 1
    /\ tasks[1].pc = "sleep"
    /\ tasks[1].failures = 7
    /\ tasks[1].wake_at - clock = 30


\* ---------------------------------------------------------------------
\* The frames of one connected monitor: the monitor of "ta" is started,
\* connects, and receives frames of Frames.
InitFrames ==
    /\ InitEmpty
    /\ nexus_image = GoodImage
    /\ bus_up = TRUE

NextFrames ==
    \/ tasks = <<>> /\ MonitorStart("ta")
    \/ TaskConnect(1, "ok", "running")
    \/ \E frame \in Frames : Len(publish_calls) <= 2 /\ TaskReceive(1, frame)

SpecFrames == InitFrames /\ [][NextFrames]_vars

\* The mapping table read by itself: the publications a frame of the
\* normalized name `event` gives, a QR string being resolvable when the
\* payload, the data or the top level of the frame holds one under qr.
QrStringResolvable(frame) ==
    \/ frame.payload = [qr |-> "x"]
    \/ frame.payload = EmptyDict /\ frame.data = [qr |-> "y"]
    \/ frame.qr # ""

MappingTable(frame) ==
    LET event == NormalizedEvent(frame) IN
    IF ~frame.json THEN <<"runtime.log">>
    ELSE CASE event = <<"bridge", ".", "qr">> -> <<"whatsapp.qr">>
           [] event = <<"bridge", ".", "connected">> -> <<"whatsapp.connected", "runtime.status">>
           [] event = <<"bridge", ".", "disconnected">> -> <<"whatsapp.disconnected", "runtime.status">>
           [] event \in {<<"bridge", ".", "inbound_message">>, <<"bridge", ".", "delivery_receipt">>} ->
                <<"whatsapp.connected", "runtime.status">>
           [] event = <<"bridge", ".", "error">> -> <<"runtime.error">>
           [] event = <<"bridge", ".", "ready">> -> <<"runtime.status">>
           [] OTHER -> IF (\E i \in 1..Len(event) : event[i] \in {"qr", "qrcode"})
                          /\ QrStringResolvable(frame)
                       THEN <<"whatsapp.qr">> ELSE <<"runtime.log">>

\* C28: for every frame received from the bridge the monitor publishes
\* exactly the events of the mapping table, in table order; a name that is
\* none of the table's and contains qr gives whatsapp.qr only when a QR
\* string is resolvable, and runtime.log otherwise.
C28_FramesFollowMappingTable ==
    [][\A frame \in Frames :
         TaskReceive(1, frame) =>
            LET n == Len(publish_calls)
                table == MappingTable(frame) IN
            /\ Len(publish_calls') = n + Len(table)
            /\ \A i \in 1..Len(table) : publish_calls'[n + i].type = table[i]]_vars


\* ---------------------------------------------------------------------
\* The publications of one monitor over time: the monitor of "ta" is
\* started once, connects, receives bridge.error frames, loses its
\* connection, sleeps and retries, while time passes.
InitCooldown ==
    /\ InitEmpty
    /\ nexus_image = GoodImage
    /\ bus_up = TRUE

\* The frame {"event": "bridge.error", "payload": {"id": "m1"}}.
ErrorFrame ==
    [json |-> TRUE, object |-> TRUE, event |-> <<"bridge", ".", "error">>, type |-> <<>>, name |-> <<>>,
     payload |-> [id |-> "m1"], data |-> EmptyDict, qr |-> ""]

NextCooldown ==
    \/ tasks = <<>> /\ MonitorStart("ta")
    \/ \E o \in ConnectOutcomes, r \in RunningResults :
          clock <= MaxCooldownClock /\ TaskConnect(1, o, r)
    \/ \E o \in ConnectOutcomes, r \in RunningResults :
          clock <= MaxCooldownClock /\ TaskConnectionLost(1, o, r)
    \/ TaskReceive(1, ErrorFrame)
    \/ TaskWake(1)
    \/ clock + CooldownTick <= MaxCooldownClock /\ Tick(CooldownTick)

SpecCooldown == InitCooldown /\ [][NextCooldown]_vars

\* C25: any two runtime.error events published by one tenant monitor are at
\* least 10 seconds apart.
C25_RuntimeErrorsTenSecondsApart ==
    \A i, j \in 1..Len(publish_calls) :
        (/\ i < j
         /\ publish_calls[i].type = "runtime.error"
         /\ publish_calls[j].type = "runtime.error"
         /\ publish_calls[i].task = publish_calls[j].task)
        => publish_calls[j].at - publish_calls[i].at >= RUNTIME_ERROR_COOLDOWN_SECONDS


\* ---------------------------------------------------------------------
\* The Runner's lifecycle endpoints and the bridge monitors: tenants are
\* provisioned, started, stopped, paired and disconnected by authorised
\* calls while their monitor tasks connect and fail.
LifecycleEndpoints == {"provision", "start", "stop", "pair_start", "whatsapp_disconnect"}

InitLifecycle ==
    /\ InitEmpty
    /\ nexus_image = GoodImage
    /\ bus_up = TRUE

NextLifecycle ==
    \/ \E t \in TokenHexIds, e \in LifecycleEndpoints, p \in DirectPayloads,
          o \in {"ok", "failed"} : RunnerEndpointCall(t, e, p, o)
    \/ \E k \in 1..MaxTasks, o \in {"ok", "transient"} : TaskConnect(k, o, "not_running")

SpecLifecycle == InitLifecycle /\ [][NextLifecycle]_vars

\* C29: when the stop endpoint has stopped the container and publishes
\* runtime.status{paused}, it has stopped the tenant's bridge monitor: no
\* task is registered for the tenant any more.
C29_StopEndpointStopsMonitor ==
    [][\A t \in TokenHexIds, p \in DirectPayloads :
         (RunnerEndpointCall(t, "stop", p, "ok") /\ runner_response'.status = 200)
            => t \notin DOMAIN monitor_tasks']_vars

\* C30: pair/start and whatsapp/disconnect stop the tenant's monitor before
\* they start it again: the task registered before the call is cancelled and
\* the task registered after it is a new one.
C30_PairAndDisconnectRestartMonitor ==
    [][\A t \in TokenHexIds, p \in DirectPayloads, e \in {"pair_start", "whatsapp_disconnect"} :
         (/\ RunnerEndpointCall(t, e, p, "ok")
          /\ runner_response'.status = 200
          /\ t \in DOMAIN monitor_tasks)
            => /\ t \in DOMAIN monitor_tasks'
               /\ monitor_tasks'[t] # monitor_tasks[t]
               /\ tasks'[monitor_tasks[t]].cancel_requested]_vars


\* C39: between two consecutive connections of one monitor task there is a
\* backoff sleep of at least 1 second, also after the bridge closed the
\* connection cleanly: two on-connect runtime.status{pending_pairing}
\* publications of one task are at least 1 second apart.  (SpecMonitor
\* receives no frame, so every runtime.status in publish_calls is an
\* on-connect one.)
C39_SleepBetweenConnections ==
    \A i, j \in 1..Len(publish_calls) :
        (/\ i < j
         /\ publish_calls[i].type = "runtime.status"
         /\ publish_calls[j].type = "runtime.status"
         /\ publish_calls[i].task = publish_calls[j].task)
        => publish_calls[j].at - publish_calls[i].at >= 1


\* ---------------------------------------------------------------------
\* One connected monitor and the frames its handler cannot read: the
\* monitor of "ta" is started, connects and receives text that is not JSON
\* and JSON that is not an object; it sleeps and reconnects after errors.
UnreadableFrames == {f \in Frames : ~f.json} \cup {NonObjectFrame}

InitUnreadable ==
    /\ InitEmpty
    /\ nexus_image = GoodImage
    /\ bus_up = TRUE

NextUnreadable ==
    \/ tasks = <<>> /\ MonitorStart("ta")
    \/ \E o \in ConnectOutcomes : clock <= MaxCooldownClock /\ TaskConnect(1, o, "running")
    \/ \E frame \in UnreadableFrames : TaskReceive(1, frame)
    \/ TaskWake(1)
    \/ clock + CooldownTick <= MaxCooldownClock /\ Tick(CooldownTick)

SpecUnreadable == InitUnreadable /\ [][NextUnreadable]_vars

\* C40: a frame that is valid JSON but not an object is published as a
\* runtime.log event; it causes no runtime.error publication and the
\* connection to the bridge is kept.
C40_NonObjectFrameIsLogged ==
    [][TaskReceive(1, NonObjectFrame) =>
          /\ tasks'[1].pc = "connected"
          /\ Len(publish_calls') = Len(publish_calls) + 1
          /\ publish_calls'[Len(publish_calls')].type = "runtime.log"]_vars


\* ---------------------------------------------------------------------
\* The reconcile loop and the monitors: tenants are provisioned, started
\* and stopped by authorised calls, a tenant is removed from outside, and
\* the loop runs its cycles.
InitReconcile ==
    /\ InitEmpty
    /\ nexus_image = GoodImage
    /\ bus_up = TRUE

NextReconcile ==
    \/ \E t \in TokenHexIds, e \in {"provision", "stop"}, p \in DirectPayloads,
          o \in {"ok", "failed"} : RunnerEndpointCall(t, e, p, o)
    \/ \E t \in TokenHexIds : TenantRemovedOutside(t)
    \/ ReconcileCycle
    \/ \E k \in 1..MaxTasks : TaskConnect(k, "ok", "running")

SpecReconcile == InitReconcile /\ [][NextReconcile]_vars

\* C31: after each reconcile cycle every monitor whose tenant id is neither
\* a directory under the tenant root nor a running container has been
\* stopped (no live task is registered for it), and every running tenant
\* has a monitor.
C31_ReconcileStopsStaleMonitors ==
    [][ReconcileCycle =>
          /\ \A t \in DOMAIN monitor_tasks' :
                \/ tasks'[monitor_tasks'[t]].pc = "done"
                \/ t \in DOMAIN runner_files
                \/ (t \in DOMAIN containers /\ containers[t])
          /\ \A t \in TokenHexIds :
                (t \in DOMAIN containers /\ containers[t]) => t \in DOMAIN monitor_tasks']_vars


\* ---------------------------------------------------------------------
\* The Runner's publisher: coroutines publish events while connection
\* attempts and publish calls on the bus succeed or fail.
OutcomeSeqs == [1..MaxOutcomes -> AttemptOutcomes]

InitPublisher ==
    /\ InitEmpty
    /\ nexus_image = GoodImage
    /\ bus_up = TRUE

NextPublisher ==
    \E t \in TokenHexIds, type \in {"runtime.status", "whatsapp.qr"},
       connects \in OutcomeSeqs, publishes \in OutcomeSeqs :
          PublisherPublish(t, type, connects, publishes)

SpecPublisher == InitPublisher /\ [][NextPublisher]_vars

C32_EmitFallsBackToLocalPersist ==
    [][(emit_count' = emit_count + 1 /\ ~bus_up) =>
          LET n == Len(runtime_events) IN
          /\ Len(runtime_events') = n + 1
          /\ LET row == runtime_events'[n + 1]
                 t == row.tenant_id
                 mapped == MappedState(row.type, row.payload)
                 attached == IF t \in DOMAIN connections THEN connections[t] ELSE {} IN
             /\ row.seq = emit_count'
             /\ row.id = n + 1
             /\ (mapped # "" /\ t \in DOMAIN tenant_runtime) =>
                   /\ tenant_runtime'[t].actual_state = mapped
                   /\ \A tr \in tenants' : tr.id = t => tr.status = mapped
             /\ \A w \in attached \ ws_broken :
                   /\ Len(ws_frames'[w]) = Len(ws_frames[w]) + 1
                   /\ ws_frames'[w][Len(ws_frames'[w])].event_id = n + 1]_vars

\* An emitted event was persisted in-process with the bus down and reached
\* an attached socket as its latest frame.
C32_Witness ==
    /\ ~bus_up
    /\ runtime_events # <<>>
    /\ runtime_events[Len(runtime_events)].seq = emit_count
    /\ \E w \in Sockets :
          /\ Len(ws_frames[w]) >= 3
          /\ ws_frames[w][Len(ws_frames[w])].event_id = Len(runtime_events)

\* C34: when a send to one attached socket raises, the event stays
\* persisted, every other attached socket of the tenant is still sent the
\* frame, the failing socket leaves the tenant's connection set, and the
\* emitter goes on (its request is answered or emits its next event).
C34_FailedSendEvictsOnlyItsSocket ==
    [][Len(runtime_events') = Len(runtime_events) + 1 =>
          LET n == Len(runtime_events)
              row == runtime_events'[n + 1]
              t == row.tenant_id
              attached == IF t \in DOMAIN connections THEN connections[t] ELSE {} IN
          /\ SubSeq(runtime_events', 1, n) = runtime_events
          /\ \A w \in attached :
                IF w \in ws_broken
                THEN /\ w \notin connections'[t]
                     /\ ws_frames'[w] = ws_frames[w]
                ELSE /\ w \in connections'[t]
                     /\ ws_frames'[w] = Append(ws_frames[w], RowToWire(row))
          /\ \A s \in Slots :
                (requests[s].stage = "emit" /\ requests'[s] # requests[s]) =>
                   \/ requests'[s] = NoRequest
                   \/ requests'[s].stage = "emit"]_vars

\* An event was broadcast while one of two attached sockets was broken: the
\* broken one is evicted without the frame, the other one has the frame.
C34_Witness ==
    /\ runtime_events # <<>>
    /\ "w1" \in ws_broken
    /\ ws_conn["w1"].state = "open"
    /\ "ta" \in DOMAIN connections
    /\ connections["ta"] = {"w2"}
    /\ ws_frames["w2"] # <<>>
    /\ ws_frames["w2"][Len(ws_frames["w2"])].event_id = Len(runtime_events)
    /\ \A i \in 1..Len(ws_frames["w1"]) :
          ws_frames["w1"][i].event_id # Len(runtime_events)


(***************************************************************************)
(* SpecWsRace: the owner of tenant ta opens a WebSocket while a runtime    *)
(* operation emits its event; the bus is unreachable, so emit persists and *)
(* broadcasts in-process.  events_ws is taken await by await.              *)
(***************************************************************************)
InitWsRace ==
    /\ InitEmpty
    /\ nexus_image = GoodImage
    /\ bus_up = FALSE

NextWsRace ==
    \/ ResponseRead
    \/ tenants = {} /\ SetupTenant(1, KeyConfig, FixedIds)
    \/ \E s \in Slots : SetupResume(s)
    \/ (\A s \in Slots : requests[s].kind = "none") /\ RuntimeOpBegin("start", 1, "ta")
    \/ \E s \in Slots : RuntimeOpResume(s)
    \/ \E s \in Slots, o \in {"ok", "failed"} : RunnerReply(s, o)
    \/ \E s \in Slots : EmitNext(s)
    \/ \E w \in Sockets : WsRegister(w, 1)
    \/ \E w \in Sockets : WsReplay(w, NoParam, NoParam)

SpecWsRace == InitWsRace /\ [][NextWsRace]_vars

\* C36: the data frames a subscriber receives over one connection have
\* strictly increasing event_id, also when events are persisted and
\* broadcast while the connection's replay is in progress.
C36_FramesInIncreasingIdOrder ==
    \A w \in Sockets : \A i, j \in 1..Len(ws_frames[w]) :
        (i < j /\ ws_frames[w][i].event_id > 0 /\ ws_frames[w][j].event_id > 0)
        => ws_frames[w][i].event_id < ws_frames[w][j].event_id


(***************************************************************************)
(* Properties of the TenantRuntime row.                                    *)
(***************************************************************************)
\* C35: in every committed state of a TenantRuntime row, actual_state
\* different from error implies that last_error is null.
C35_LastErrorOnlyInErrorState ==
    \A t \in DOMAIN tenant_runtime :
        tenant_runtime[t].actual_state # "error" => tenant_runtime[t].last_error = ""


\* No handler is suspended and the bus holds no envelope to consume.
Quiescent == NoRequestInFlight /\ bus_queue = <<>>

\* C37: whenever no request is being handled and no emitted event waits to
\* be persisted, Tenant.status equals TenantRuntime.actual_state for every
\* tenant.
C37_StatusEqualsActualState ==
    Quiescent =>
        \A row \in tenants :
            row.id \in DOMAIN tenant_runtime =>
                row.status = tenant_runtime[row.id].actual_state


\* ---------------------------------------------------------------------
\* A leftover tenant directory: user 1 sets up tenant "ta"; tenant "tb" is
\* provisioned on the Runner by an authorised call and has no Tenant row;
\* the reconcile loop publishes for both and the consumer consumes.
InitLeftover ==
    /\ InitEmpty
    /\ nexus_image = GoodImage
    /\ bus_up = TRUE

NextLeftover ==
    \/ ResponseRead
    \/ tenants = {} /\ SetupTenant(1, KeyConfig, FixedIds)
    \/ \E s \in Slots : SetupResume(s)
    \/ \E s \in Slots : RunnerReply(s, "ok")
    \/ \E s \in Slots : EmitNext(s)
    \/ \E p \in DirectPayloads : RunnerEndpointCall("tb", "provision", p, "ok")
    \/ ConsumerSubscribe
    \/ ConsumeMessage
    \/ ConsumeUnpersistable
    \/ \E t \in TokenHexIds : ReconcilePublish(t)

SpecLeftover == InitLeftover /\ [][NextLeftover]_vars

\* The envelopes of the subscription that belong to a tenant with a row.
PersistableQueued(queue) ==
    Cardinality({i \in 1..Len(queue) : TenantExists(queue[i].tenant_id)})

\* C38: an envelope that cannot be persisted affects only itself: while the
\* bus is reachable the consumer stays subscribed, and no step drops a
\* delivered envelope of an existing tenant (it stays queued or becomes a
\* runtime_events row).
C38_UnpersistableEnvelopeAffectsOnlyItself ==
    [][consumer = "subscribed" /\ bus_up /\ bus_up' =>
          /\ consumer' = "subscribed"
          /\ PersistableQueued(bus_queue') + Len(runtime_events')
                >= PersistableQueued(bus_queue) + Len(runtime_events)]_vars

=============================================================================
